---- MODULE Spec2Model ----
(***************************************************************************)
(* A model of two engines of the moveit repository:                        *)
(*   - TrajectoryExecutionManager (trajectory_execution_manager.cpp):      *)
(*     push / execute / stopExecution / waitForExecution, the worker       *)
(*     (executeThread, executePart) and the controller handles;            *)
(*   - EnvironmentChain3D (environment_chain3d.cpp): setupForMotionPlan    *)
(*     and GetSuccs over the hashed state table.                           *)
(* Each engine has its own specification over the module's variables; the  *)
(* variables of the other engines are left unchanged by it.                *)
(***************************************************************************)
EXTENDS Integers, Sequences, FiniteSets, TLC

\* ------------------------------------------------------------------ bounds
MaxQueue == 2      \* contexts that push may queue
MaxParts == 2      \* controllers (and trajectory parts) of one context
MaxCalls == 3      \* calls the client thread makes in one behaviour
TimeStepMs == 10     \* milliseconds in one unit of time_from_start and of a stamp
MaxIndexed == 1     \* points of the longest part entered in time_index_
MaxEvents == 1     \* stop requests the event thread makes in one behaviour
MaxExec == 2       \* calls of execute() in one behaviour
MaxCtl == 3        \* controllers known to the controller manager
MaxJoints == 2     \* joints of the robot
MaxCoverCtl == 4    \* controllers of the registry whose active ones are disjoint
MaxCoverJoints == 3 \* joints of that registry
MaxUserList == 2   \* length of a controller list given by the caller
MaxDofs == 1       \* active joints of the planning group
HalfTurn == 7      \* pi, in ticks: angles are integers in (-HalfTurn, HalfTurn]
MaxAngle == 3      \* angles of a general request lie in (-MaxAngle, MaxAngle]
JointLimit == 2    \* a bounded joint moves in [-JointLimit, JointLimit] ticks
MaxResolution == 3 \* largest distance-field resolution, in ticks
MaxObstacles == 1  \* configurations the collision world rejects
MaxEntries == 5    \* GetSuccs is called while the table is smaller
\* the largest table a repeated setup may leave
MaxSetupEntries == 4
MaxPoints == 2     \* points of a joint trajectory
MaxTime == 1       \* largest time_from_start of a point
MaxMultiDOF == 1   \* joints and points of a multi-DOF trajectory
MaxPath == 3       \* state ids of a path handed over for a trajectory
MaxConfigurePoints == 1 \* points of a joint trajectory given to configure

\* planner constants (environment_chain3d.cpp lines 40-41); a tick is half of
\* LONG_RANGE_JOINT_DIFF
LONG_RANGE_JOINT_DIFF == 2
JOINT_DIST_MULT == 1000

\* Foreground threads: the client of the public interface (push, execute,
\* waitForExecution, stopExecution) and the subscriber thread of receiveEvent,
\* which calls stopExecution(true) for a "stop" event (processEvent, line 119).
ClientThread == "client"
EventThread == "event"
Threads == {ClientThread, EventThread}

\* --------------------------------------------------------------- variables
VARIABLES
  execution_complete_,     \* bool
  last_execution_status_,  \* ExecutionStatus
  current_context_,        \* index into trajectories_, -1 when none
  time_index_,             \* expected times of the points of the longest part
  trajectories_,           \* sequence of TrajectoryExecutionContext
  active_handles_,         \* sequence of controller handles (by controller)
  execution_thread_,       \* worker id, 0 when the pointer is null
  execution_state_mutex_,  \* owner of the mutex
  workers,                 \* worker id -> its locals, position and history
  fg,                      \* foreground thread -> its position
  handle,                  \* controller -> state of its handle
  terminated,              \* the process was ended (std::terminate, segfault)
  nexec,                   \* number of workers created so far
  ncalls,                  \* how many calls each foreground thread has made
  \* controller selection
  known_controllers_,      \* name -> ControllerInformation
  overlapping,             \* name -> overlapping_controllers_ of its entry
  manage_controllers_,     \* bool
  selCall,                 \* the last call of selectControllers and its result
  distCall,                \* the last call of distributeTrajectory, its result
  ensCall,                 \* the last call of ensureActiveControllers
  \* planner (EnvironmentChain3D)
  joint_is_continuous,     \* per active joint: continuous (else bounded)
  angle_discretization_,   \* set from the distance field's resolution
  obstacles,               \* joint configurations in collision
  grid_cells,              \* cells of the distance field along each axis
  possible_actions_,       \* sequence of motion primitives
  state_ID_to_coord_table_,\* sequence of hash entries; stateID = index - 1
  start_hash_entry_,       \* stateID of the start entry, -1 when null
  goal_hash_entry_,        \* stateID of the goal entry, -1 when null
  setupResult,             \* "none", "ok" or the error code of the failure
  lastSuccs,               \* the last GetSuccs call and what it returned
  lastTraj                 \* the last populateTrajectoryFromStateIDSequence

execVars == <<execution_complete_, last_execution_status_, current_context_,
              time_index_,
              trajectories_, active_handles_, execution_thread_,
              execution_state_mutex_, workers, fg, handle, terminated, nexec,
              ncalls>>

selVars == <<known_controllers_, overlapping, manage_controllers_, selCall,
            distCall, ensCall>>

envVars == <<joint_is_continuous, angle_discretization_, obstacles, grid_cells,
            possible_actions_, state_ID_to_coord_table_, start_hash_entry_,
            goal_hash_entry_, setupResult, lastSuccs, lastTraj>>

vars == <<execVars, selVars, envVars>>

\* what the execution engine leaves alone
nonExecVars == <<selVars, envVars>>

\* what the controller selection leaves alone
nonSelVars == <<execVars, envVars>>

\* what the planner leaves alone
nonEnvVars == <<execVars, selVars>>

\* ----------------------------------------------------------------- helpers
Controllers == 1..MaxParts
WorkerIds == 1..MaxExec

NoOwner == <<"none", 0>>
ThreadOwner(t) == <<"t", t>>
WorkerOwner(w) == <<"w", w>>

\* A context as configure() leaves it: controllers_ are pairwise distinct and
\* trajectory_parts_[k] is the part made for controllers_[k].
ContextOf(n) ==
  [controllers_ |-> [k \in 1..n |-> n + 1 - k],
   trajectory_parts_ |-> [k \in 1..n |-> n + 1 - k]]

Contexts == {ContextOf(n) : n \in 1..MaxParts}

\* moveit_controller_manager::MoveItControllerHandle::getLastExecutionStatus
HandleStatus(c) == IF handle[c] = "running" THEN "RUNNING"
                   ELSE IF handle[c] = "idle" THEN "UNKNOWN"
                   ELSE handle[c]

\* cancelExecution on every handle of the set cs: a running handle is preempted
Cancelled(cs) ==
  [c \in Controllers |->
     IF c \in cs /\ handle[c] = "running" THEN "PREEMPTED" ELSE handle[c]]

Range(s) == {s[k] : k \in 1..Len(s)}

SomeWorkerAlive ==
  \E w \in WorkerIds : workers[w].pc \notin {"none", "done"}

\* what a worker has done so far (history, never read by the code):
\*   sent       sendTrajectory calls of the worker, in order
\*   waited     <<context, part>> whose handle the worker finished waiting on
\*   fail       <<context, part>> of the worker's failed sendTrajectory, or <<>>
\*   cancelled  the handles cancelled after that failure
\*   reported   <<context, status>> read from a handle, status # SUCCEEDED
\*   timedOut   the worker took the budget-overrun branch
\*   stopped    a foreground stopExecution set the completion flag while the
\*              worker had not set it itself
\*   cb         the status the completion callback was called with, or <<>>
\*   exit       last_execution_status_ when the worker set the completion
\*              flag (line 710) or returned early (line 689)
\*   queued     the size of the queue when execute() started the worker
NoHistory ==
  [sent |-> <<>>, waited |-> {}, fail |-> <<>>, cancelled |-> {},
   reported |-> {}, timedOut |-> FALSE, stopped |-> FALSE, cb |-> <<>>,
   exit |-> <<>>, queued |-> 0]

NoContext == [controllers_ |-> <<>>, trajectory_parts_ |-> <<>>]

\* the locals of executeThread and executePart: i, the part counter p, the
\* copy "handles", result, auto_clear and what the reference "context" was
\* bound to at line 721
NewWorker(ac) ==
  [pc |-> "t686", i |-> 0, p |-> 0, handles |-> <<>>, result |-> TRUE,
   auto_clear |-> ac, context |-> NoContext, h |-> NoHistory]

\* a worker whose thread function has returned: its locals are gone
Finished(wr) ==
  [pc |-> "done", i |-> 0, p |-> 0, handles |-> <<>>, result |-> TRUE,
   auto_clear |-> FALSE, context |-> NoContext, h |-> wr.h]

IdleThread == [pc |-> "idle", op |-> "none", ac |-> FALSE]

\* the calls a thread may still make: the client MaxCalls, the event thread
\* MaxEvents
MayCall(t) ==
  ncalls[t] < (IF t = ClientThread THEN MaxCalls ELSE MaxEvents)
Called(t) == [ncalls EXCEPT ![t] = @ + 1]


\* -------------------------------------------------------------------- Init
\* the state initialize() leaves (lines 56-105)
ExecInit ==
  /\ execution_complete_ = TRUE
  /\ last_execution_status_ = "SUCCEEDED"
  /\ current_context_ = -1
  /\ time_index_ = <<>>
  /\ trajectories_ = <<>>
  /\ active_handles_ = <<>>
  /\ execution_thread_ = 0
  /\ execution_state_mutex_ = NoOwner
  /\ workers = [w \in WorkerIds |->
                 [pc |-> "none", i |-> 0, p |-> 0, handles |-> <<>>,
                  result |-> TRUE, auto_clear |-> FALSE,
                  context |-> NoContext, h |-> NoHistory]]
  /\ fg = [t \in Threads |-> IdleThread]
  /\ handle = [c \in Controllers |-> "idle"]
  /\ terminated = FALSE
  /\ nexec = 0
  /\ ncalls = [t \in Threads |-> 0]

\* ------------------------------------------------- foreground: push, line 154
\* push(trajectory, controllers): refused while execution_complete_ is false;
\* otherwise configure() either fails or yields a context, which is appended.
Push(t) ==
  /\ ~terminated
  /\ UNCHANGED nonExecVars
  /\ t = ClientThread
  /\ fg[t].pc = "idle"
  /\ MayCall(t)
  /\ ncalls' = Called(t)
  /\ \/ /\ ~execution_complete_
        /\ UNCHANGED trajectories_
     \/ /\ execution_complete_
        /\ UNCHANGED trajectories_
     \/ /\ execution_complete_
        /\ Len(trajectories_) < MaxQueue
        /\ \E ctx \in Contexts : trajectories_' = Append(trajectories_, ctx)
  /\ UNCHANGED <<execution_complete_, last_execution_status_,
                 current_context_, time_index_, active_handles_, execution_thread_,
                 execution_state_mutex_, workers, fg, handle, terminated,
                 nexec>>

\* ------------------------------------ foreground: stopExecution, lines 618-658
\* the arguments a thread may pass: the event thread always passes true

\* line 620: the call and its unlocked read of execution_complete_
Enter620(t, op, ac) ==
  fg' = [fg EXCEPT ![t] = [pc |-> IF execution_complete_ THEN "s653" ELSE "s622",
                           op |-> op, ac |-> ac]]

\* stopExecution(auto_clear)
StopCall(t) ==
  /\ ~terminated
  /\ UNCHANGED nonExecVars
  /\ fg[t].pc = "idle"
  /\ MayCall(t)
  /\ ncalls' = Called(t)
  /\ \E ac \in (IF t = EventThread THEN {TRUE} ELSE BOOLEAN) : Enter620(t, "stop", ac)
  /\ UNCHANGED <<execution_complete_, last_execution_status_,
                 current_context_, time_index_, trajectories_, active_handles_,
                 execution_thread_, execution_state_mutex_, workers, handle,
                 terminated, nexec>>

\* execute(callback, auto_clear), line 660: starts with stopExecution(false);
\* ac is kept for the worker
ExecuteCall(t) ==
  /\ ~terminated
  /\ UNCHANGED nonExecVars
  /\ t = ClientThread
  /\ fg[t].pc = "idle"
  /\ nexec < MaxExec
  /\ MayCall(t)
  /\ ncalls' = Called(t)
  /\ \E ac \in BOOLEAN : Enter620(t, "execute", ac)
  /\ UNCHANGED <<execution_complete_, last_execution_status_,
                 current_context_, time_index_, trajectories_, active_handles_,
                 execution_thread_, execution_state_mutex_, workers, handle,
                 terminated, nexec>>

\* where a thread continues when its stopExecution returns
AfterStop(op) == CASE op = "stop" -> "idle"
                   [] op = "execute" -> "x663"
                   [] op = "wait" -> "idle"

\* the record of a thread whose stopExecution has returned
Returned(t) == IF AfterStop(fg[t].op) = "idle" THEN IdleThread
               ELSE [fg[t] EXCEPT !.pc = AfterStop(fg[t].op)]

\* lines 622-636: lock; on the locked re-check set the flag and cancel every
\* active handle, else (line 650) unlock and return
S622(t) ==
  /\ ~terminated
  /\ UNCHANGED nonExecVars
  /\ fg[t].pc = "s622"
  /\ execution_state_mutex_ = NoOwner
  /\ IF ~execution_complete_
       THEN /\ execution_complete_' = TRUE
            /\ handle' = Cancelled(Range(active_handles_))
            /\ workers' = [w \in WorkerIds |->
                             IF workers[w].pc \notin {"none", "done", "t712"}
                               THEN [workers[w] EXCEPT !.h.stopped = TRUE]
                               ELSE workers[w]]
            /\ execution_state_mutex_' = ThreadOwner(t)
            /\ fg' = [fg EXCEPT ![t].pc = "s638"]
       ELSE /\ fg' = [fg EXCEPT ![t] = Returned(t)]
            /\ UNCHANGED <<execution_complete_, handle, workers,
                           execution_state_mutex_>>
  /\ UNCHANGED <<last_execution_status_, current_context_, time_index_, trajectories_,
                 active_handles_, execution_thread_, terminated, nexec,
                 ncalls>>

\* lines 638-639: the status is written, the mutex released
S638(t) ==
  /\ ~terminated
  /\ UNCHANGED nonExecVars
  /\ fg[t].pc = "s638"
  /\ last_execution_status_' = "PREEMPTED"
  /\ execution_state_mutex_' = NoOwner
  /\ fg' = [fg EXCEPT ![t].pc = "s643"]
  /\ UNCHANGED <<execution_complete_, current_context_, time_index_, trajectories_,
                 active_handles_, execution_thread_, workers, handle,
                 terminated, nexec, ncalls>>

\* execution_thread_->join(): returns when the thread function of the worker
\* the pointer names has returned
JoinReturns == /\ execution_thread_ # 0
               /\ workers[execution_thread_].pc = "done"

\* lines 643-647: join, reset, and clear() when auto_clear.  With the pointer
\* already reset by another caller, the call either was inside join() before
\* the reset (it returns) or dereferences null (the process ends).
S643(t) ==
  /\ ~terminated
  /\ UNCHANGED nonExecVars
  /\ fg[t].pc = "s643"
  /\ \/ /\ JoinReturns \/ execution_thread_ = 0
        /\ execution_thread_' = 0
        /\ trajectories_' = IF fg[t].ac /\ fg[t].op = "stop"
                              THEN <<>> ELSE trajectories_
        /\ fg' = [fg EXCEPT ![t] = Returned(t)]
        /\ UNCHANGED terminated
     \/ /\ execution_thread_ = 0
        /\ terminated' = TRUE
        /\ UNCHANGED <<execution_thread_, trajectories_, fg>>
  /\ UNCHANGED <<execution_complete_, last_execution_status_,
                 current_context_, time_index_, active_handles_, execution_state_mutex_,
                 workers, handle, nexec, ncalls>>

\* a join branch that would clear the queue for auto_clear as line 646 does
S653AutoClear(t) ==
  /\ ~terminated
  /\ UNCHANGED nonExecVars
  /\ fg[t].pc = "s653"
  /\ JoinReturns \/ execution_thread_ = 0
  /\ execution_thread_' = 0
  /\ execution_state_mutex_' =
       IF fg[t].op = "wait" THEN NoOwner ELSE execution_state_mutex_
  /\ trajectories_' = IF fg[t].ac /\ fg[t].op = "stop"
                        THEN <<>> ELSE trajectories_
  /\ fg' = [fg EXCEPT ![t] = Returned(t)]
  /\ UNCHANGED <<execution_complete_, last_execution_status_,
                 current_context_, time_index_, active_handles_, workers,
                 handle, terminated, nexec, ncalls>>

\* lines 653-657: a thread left from the past is joined and reset.  When the
\* caller is waitForExecution its unique_lock, held across the call, is
\* released on return (line 675).
S653(t) ==
  /\ ~terminated
  /\ UNCHANGED nonExecVars
  /\ fg[t].pc = "s653"
  /\ JoinReturns \/ execution_thread_ = 0
  /\ execution_thread_' = 0
  /\ execution_state_mutex_' =
       IF fg[t].op = "wait" THEN NoOwner ELSE execution_state_mutex_
  /\ fg' = [fg EXCEPT ![t] = Returned(t)]
  /\ UNCHANGED <<execution_complete_, last_execution_status_,
                 current_context_, time_index_, trajectories_, active_handles_, workers,
                 handle, terminated, nexec, ncalls>>

\* ------------------------------------------ foreground: execute, lines 663-665
\* execution_complete_ = false and the worker thread is created
X663(t) ==
  /\ ~terminated
  /\ UNCHANGED nonExecVars
  /\ fg[t].pc = "x663"
  /\ execution_complete_' = FALSE
  /\ nexec' = nexec + 1
  /\ workers' = [w \in WorkerIds |->
                   IF w = nexec + 1
                     THEN [NewWorker(fg[t].ac) EXCEPT
                             !.h.queued = Len(trajectories_)]
                   ELSE IF workers[w].pc = "done"
                          THEN [workers[w] EXCEPT !.h = NoHistory]
                   ELSE workers[w]]
  /\ execution_thread_' = nexec + 1
  /\ fg' = [fg EXCEPT ![t] = IdleThread]
  /\ UNCHANGED <<last_execution_status_, current_context_, time_index_, trajectories_,
                 active_handles_, execution_state_mutex_, handle, terminated,
                 ncalls>>

\* --------------------------------- foreground: waitForExecution, lines 668-676
\* lines 670-674: lock; while (!execution_complete_) wait(ulock); then
\* stopExecution(false) is entered with the mutex still held (its line 620
\* reads the flag that was just read true).  A woken waiter re-enters here.
WaitCall(t) ==
  /\ ~terminated
  /\ UNCHANGED nonExecVars
  /\ t = ClientThread
  /\ fg[t].pc \in {"idle", "wre"}
  /\ IF fg[t].pc = "idle"
       THEN MayCall(t) /\ ncalls' = Called(t)
       ELSE UNCHANGED ncalls
  /\ execution_state_mutex_ = NoOwner
  /\ IF ~execution_complete_
       THEN /\ fg' = [fg EXCEPT ![t] = [pc |-> "wcv", op |-> "wait", ac |-> FALSE]]
            /\ UNCHANGED execution_state_mutex_
       ELSE /\ fg' = [fg EXCEPT ![t] = [pc |-> "s653", op |-> "wait", ac |-> FALSE]]
            /\ execution_state_mutex_' = ThreadOwner(t)
  /\ UNCHANGED <<execution_complete_, last_execution_status_,
                 current_context_, time_index_, trajectories_, active_handles_,
                 execution_thread_, workers, handle, terminated, nexec>>

\* a condition variable may wake its waiter without a notification
SpuriousWake(t) ==
  /\ ~terminated
  /\ UNCHANGED nonExecVars
  /\ fg[t].pc = "wcv"
  /\ fg' = [fg EXCEPT ![t].pc = "wre"]
  /\ UNCHANGED <<execution_complete_, last_execution_status_,
                 current_context_, time_index_, trajectories_, active_handles_,
                 execution_thread_, execution_state_mutex_, workers, handle,
                 terminated, nexec, ncalls>>

\* ------------------------------------------ worker: executeThread, lines 683-717
WorkerVarsFrame ==
  <<execution_thread_, fg, terminated, nexec, ncalls>>

\* line 686: if (execution_complete_), read without the mutex
T686(w) ==
  /\ ~terminated
  /\ UNCHANGED nonExecVars
  /\ workers[w].pc = "t686"
  /\ workers' = [workers EXCEPT ![w].pc =
                   IF execution_complete_ THEN "t688" ELSE "t694"]
  /\ UNCHANGED <<execution_complete_, last_execution_status_,
                 current_context_, time_index_, trajectories_, active_handles_,
                 execution_state_mutex_, handle, WorkerVarsFrame>>

\* lines 688-689: a stop request came before anything started: ABORTED, return
T688(w) ==
  /\ ~terminated
  /\ UNCHANGED nonExecVars
  /\ workers[w].pc = "t688"
  /\ last_execution_status_' = "ABORTED"
  /\ workers' = [workers EXCEPT
       ![w] = Finished([workers[w] EXCEPT !.h.exit = <<"ABORTED">>])]
  /\ UNCHANGED <<execution_complete_, current_context_, time_index_, trajectories_,
                 active_handles_, execution_state_mutex_, handle,
                 WorkerVarsFrame>>

\* line 694: assume everything will be OK
T694(w) ==
  /\ ~terminated
  /\ UNCHANGED nonExecVars
  /\ workers[w].pc = "t694"
  /\ last_execution_status_' = "SUCCEEDED"
  /\ workers' = [workers EXCEPT ![w].pc = "t698", ![w].i = 1]
  /\ UNCHANGED <<execution_complete_, current_context_, time_index_, trajectories_,
                 active_handles_, execution_state_mutex_, handle,
                 WorkerVarsFrame>>

\* lines 698 and 721-724: for (i = 0 ; i < trajectories_.size() ; ++i), then
\* executePart(i) starts with ensureActiveControllers(context.controllers_),
\* whose outcome rests on the controller manager (loadController,
\* switchControllers); false ends the loop
T698(w) ==
  /\ ~terminated
  /\ UNCHANGED nonExecVars
  /\ workers[w].pc = "t698"
  /\ IF workers[w].i <= Len(trajectories_)
       THEN \E ok \in BOOLEAN :
              workers' = [workers EXCEPT
                            ![w].pc = IF ok THEN "p727" ELSE "t703",
                            ![w].context = trajectories_[workers[w].i]]
       ELSE workers' = [workers EXCEPT ![w].pc = "t703"]
  /\ UNCHANGED <<execution_complete_, last_execution_status_,
                 current_context_, time_index_, trajectories_, active_handles_,
                 execution_state_mutex_, handle, WorkerVarsFrame>>

\* lines 703-704: if (auto_clear) clear()
T703(w) ==
  /\ ~terminated
  /\ UNCHANGED nonExecVars
  /\ workers[w].pc = "t703"
  /\ trajectories_' = IF workers[w].auto_clear THEN <<>> ELSE trajectories_
  /\ workers' = [workers EXCEPT ![w].pc = "t709"]
  /\ UNCHANGED <<execution_complete_, last_execution_status_,
                 current_context_, time_index_, active_handles_, execution_state_mutex_,
                 handle, WorkerVarsFrame>>

\* lines 709-711: lock, execution_complete_ = true, unlock
T709(w) ==
  /\ ~terminated
  /\ UNCHANGED nonExecVars
  /\ workers[w].pc = "t709"
  /\ execution_state_mutex_ = NoOwner
  /\ execution_complete_' = TRUE
  /\ workers' = [workers EXCEPT ![w].pc = "t712",
                                ![w].h.exit = <<last_execution_status_>>]
  /\ UNCHANGED <<last_execution_status_, current_context_, time_index_, trajectories_,
                 active_handles_, execution_state_mutex_, handle,
                 WorkerVarsFrame>>

\* lines 712-716: notify_all() wakes every waiter, then the callback is called
\* with last_execution_status_ and the thread function returns
T712(w) ==
  /\ ~terminated
  /\ UNCHANGED nonExecVars
  /\ workers[w].pc = "t712"
  /\ fg' = [t \in Threads |->
              IF fg[t].pc = "wcv" THEN [fg[t] EXCEPT !.pc = "wre"] ELSE fg[t]]
  /\ workers' = [workers EXCEPT
       ![w] = Finished([workers[w] EXCEPT !.h.cb = <<last_execution_status_>>])]
  /\ UNCHANGED <<execution_complete_, last_execution_status_,
                 current_context_, time_index_, trajectories_, active_handles_,
                 execution_thread_, execution_state_mutex_, handle,
                 terminated, nexec, ncalls>>

\* -------------------------------------------- worker: executePart, lines 719-871
\* line 721: TrajectoryExecutionContext &context = trajectories_[part_index]
\* (i is part_index + 1).  The reference dangles once the element it was bound
\* to is gone or replaced: clear() and push() touch trajectories_ without a
\* lock.
Dangling(w) ==
  IF workers[w].i > Len(trajectories_) THEN TRUE
  ELSE trajectories_[workers[w].i] # workers[w].context

\* what a read through the reference can yield: the element it was bound to
\* (the memory was left alone) or the element that now sits in its slot
Ctx(w) ==
  {workers[w].context} \cup
  (IF workers[w].i <= Len(trajectories_)
     THEN {trajectories_[workers[w].i]} ELSE {})



\* a loop that would leave the last handle unwaited
AllHandlesWaitedButLast(p, n) == p >= n

\* line 832: for (i = 0 ; i < handles.size() ; ++i)
AllHandlesWaited(p, n) == p > n


\* lines 727-728: stop if we are already asked to do so
P727(w) ==
  /\ ~terminated
  /\ UNCHANGED nonExecVars
  /\ workers[w].pc = "p727"
  /\ workers' = [workers EXCEPT ![w].pc =
                   IF execution_complete_ THEN "t703" ELSE "p732"]
  /\ UNCHANGED <<execution_complete_, last_execution_status_,
                 current_context_, time_index_, trajectories_, active_handles_,
                 execution_state_mutex_, handle, WorkerVarsFrame>>

\* lines 732-742: lock; unless the flag is set, record the context index and
\* fetch the handles of the context's controllers (kept locked for the sends).
\* On the way to the wait loop lines 776-829 enter the expected times of the
\* longest part's points in time_index_, none when no part has joint points.
P732(w) ==
  /\ ~terminated
  /\ UNCHANGED nonExecVars
  /\ workers[w].pc = "p732"
  /\ execution_state_mutex_ = NoOwner
  /\ IF ~execution_complete_
       THEN /\ current_context_' = workers[w].i - 1
            /\ \E context \in Ctx(w) :
                 /\ active_handles_' = context.controllers_
                 /\ workers' = [workers EXCEPT
                                  ![w].pc = "p748", ![w].p = 1,
                                  ![w].handles = context.controllers_]
            /\ execution_state_mutex_' = WorkerOwner(w)
       ELSE /\ workers' = [workers EXCEPT ![w].pc = "p832", ![w].p = 1,
                                          ![w].handles = <<>>,
                                          ![w].result = TRUE]
            /\ UNCHANGED <<current_context_, active_handles_, execution_state_mutex_>>
  /\ IF workers'[w].pc = "p832"
       THEN \E n \in 0..MaxIndexed :
              time_index_' = time_index_ \o [j \in 1..n |-> j]
       ELSE UNCHANGED time_index_
  /\ UNCHANGED <<execution_complete_, last_execution_status_, trajectories_,
                 handle, WorkerVarsFrame>>

\* lines 743-773: sendTrajectory of part p; on false or an exception the parts
\* sent before are cancelled and the context is ABORTED
P748(w) ==
  /\ ~terminated
  /\ UNCHANGED nonExecVars
  /\ workers[w].pc = "p748"
  /\ \E context \in Ctx(w) :
       LET p == workers[w].p
           n == Len(context.trajectory_parts_)
       IN IF p > n
            THEN \* the loop condition i < context.trajectory_parts_.size()
                 /\ execution_state_mutex_' = NoOwner
                 /\ workers' = [workers EXCEPT ![w].pc = "p832", ![w].p = 1,
                                               ![w].result = TRUE]
                 /\ UNCHANGED <<handle, active_handles_, current_context_,
                                last_execution_status_>>
            ELSE /\ p <= Len(active_handles_)
                 /\ LET c == active_handles_[p]
                        sent == Append(workers[w].h.sent,
                                  [ctx |-> workers[w].i, part |-> p,
                                   handle |-> c,
                                   ctl |-> context.controllers_[p],
                                   data |-> context.trajectory_parts_[p]])
                    IN \/ /\ handle' = [handle EXCEPT ![c] = "running"]
                          /\ IF p = n
                               THEN /\ execution_state_mutex_' = NoOwner
                                    /\ workers' = [workers EXCEPT
                                          ![w].pc = "p832", ![w].p = 1,
                                          ![w].result = TRUE,
                                          ![w].h.sent = sent]
                               ELSE /\ workers' = [workers EXCEPT
                                          ![w].p = p + 1, ![w].h.sent = sent]
                                    /\ UNCHANGED execution_state_mutex_
                          /\ UNCHANGED <<active_handles_, current_context_,
                                         last_execution_status_>>
                       \/ /\ handle' = Cancelled({active_handles_[j] :
                                                    j \in 1..(p - 1)})
                          /\ active_handles_' = <<>>
                          /\ current_context_' = -1
                          /\ last_execution_status_' = "ABORTED"
                          /\ execution_state_mutex_' = NoOwner
                          /\ workers' = [workers EXCEPT
                                ![w].pc = "t703",
                                ![w].h.fail = <<workers[w].i, p>>,
                                ![w].h.cancelled =
                                   {active_handles_[j] : j \in 1..(p - 1)}]
  /\ IF workers'[w].pc = "p832"
       THEN \E n \in 0..MaxIndexed :
              time_index_' = time_index_ \o [j \in 1..n |-> j]
       ELSE UNCHANGED time_index_
  /\ UNCHANGED <<execution_complete_, trajectories_, WorkerVarsFrame>>

\* a read through the dangling reference (lines 739-748), or the index
\* active_handles_[i] it leads past the end of the list, may also end the
\* process
UseAfterFree(w) ==
  /\ ~terminated
  /\ UNCHANGED nonExecVars
  /\ workers[w].pc \in {"p732", "p748"}
  /\ Dangling(w)
  /\ terminated' = TRUE
  /\ UNCHANGED <<execution_complete_, last_execution_status_,
                 current_context_, time_index_, trajectories_, active_handles_,
                 execution_thread_, execution_state_mutex_, workers, fg,
                 handle, nexec, ncalls>>

\* lines 832-834: handles[p]->waitForExecution(expected_trajectory_duration)
\* returns true once the handle has finished and false once the budget is over
P832(w) ==
  /\ ~terminated
  /\ UNCHANGED nonExecVars
  /\ workers[w].pc = "p832"
  /\ LET p == workers[w].p
     IN IF AllHandlesWaited(p, Len(workers[w].handles))
          THEN /\ workers' = [workers EXCEPT ![w].pc = "p857"]
          ELSE /\ workers' = [workers EXCEPT
                     ![w].pc = IF handle[workers[w].handles[p]] = "running"
                                 THEN "p835" ELSE "p842",
                     ![w].h.waited = @ \cup {<<workers[w].i, p>>}]
  /\ UNCHANGED <<execution_complete_, last_execution_status_,
                 current_context_, time_index_, trajectories_, active_handles_,
                 execution_state_mutex_, handle, WorkerVarsFrame>>

\* line 835: if (!execution_complete_ && now - current_time > expected duration)
P835(w) ==
  /\ ~terminated
  /\ UNCHANGED nonExecVars
  /\ workers[w].pc = "p835"
  /\ IF ~execution_complete_
       THEN /\ workers' = [workers EXCEPT ![w].pc = "ws620",
                                          ![w].h.timedOut = TRUE]
       ELSE /\ workers' = [workers EXCEPT ![w].pc = "p842"]
  /\ UNCHANGED <<execution_complete_, last_execution_status_,
                 current_context_, time_index_, trajectories_, active_handles_,
                 execution_state_mutex_, handle, WorkerVarsFrame>>

\* line 840: we overwrite the PREEMPTED status set by stopExecution() here
P840(w) ==
  /\ ~terminated
  /\ UNCHANGED nonExecVars
  /\ workers[w].pc = "p840"
  /\ last_execution_status_' = "TIMED_OUT"
  /\ workers' = [workers EXCEPT ![w].pc = "p842"]
  /\ UNCHANGED <<execution_complete_, current_context_, time_index_, trajectories_,
                 active_handles_, execution_state_mutex_, handle,
                 WorkerVarsFrame>>

\* lines 842-846: if (execution_complete_) { result = false; break; }
P842(w) ==
  /\ ~terminated
  /\ UNCHANGED nonExecVars
  /\ workers[w].pc = "p842"
  /\ workers' = [workers EXCEPT
                   ![w].pc = IF execution_complete_ THEN "p857" ELSE "p848",
                   ![w].result = IF execution_complete_ THEN FALSE ELSE @]
  /\ UNCHANGED <<execution_complete_, last_execution_status_,
                 current_context_, time_index_, trajectories_, active_handles_,
                 execution_state_mutex_, handle, WorkerVarsFrame>>

\* lines 848-853: the handle's last status is read
P848(w) ==
  /\ ~terminated
  /\ UNCHANGED nonExecVars
  /\ workers[w].pc = "p848"
  /\ LET st == HandleStatus(workers[w].handles[workers[w].p])
     IN /\ last_execution_status_' = (IF st # "SUCCEEDED" THEN st ELSE last_execution_status_)
        /\ workers' = [workers EXCEPT
              ![w].pc = "p832", ![w].p = @ + 1,
              ![w].result = (IF st # "SUCCEEDED" THEN FALSE ELSE @),
              ![w].h.reported = IF st # "SUCCEEDED"
                                  THEN @ \cup {<<workers[w].i, st>>} ELSE @]
  /\ UNCHANGED <<execution_complete_, current_context_, time_index_, trajectories_,
                 active_handles_, execution_state_mutex_, handle,
                 WorkerVarsFrame>>

\* an end of executePart that would leave the time index as it is
P857KeepsIndex(w) ==
  /\ ~terminated
  /\ UNCHANGED nonExecVars
  /\ workers[w].pc = "p857"
  /\ execution_state_mutex_ = NoOwner
  /\ active_handles_' = <<>>
  /\ UNCHANGED time_index_
  /\ current_context_' = -1
  /\ workers' = [workers EXCEPT
       ![w].pc = IF workers[w].result /\ ~execution_complete_
                   THEN "t698" ELSE "t703",
       ![w].i = IF workers[w].result /\ ~execution_complete_ THEN @ + 1 ELSE @]
  /\ UNCHANGED <<execution_complete_, last_execution_status_, trajectories_,
                 execution_state_mutex_, handle, WorkerVarsFrame>>

\* lines 857-867: lock, clear the active handles, the time index and the
\* context index, unlock,
\* return result; line 699: a true result is followed by "|| execution_complete_"
P857(w) ==
  /\ ~terminated
  /\ UNCHANGED nonExecVars
  /\ workers[w].pc = "p857"
  /\ execution_state_mutex_ = NoOwner
  /\ active_handles_' = <<>>
  /\ time_index_' = <<>>
  /\ current_context_' = -1
  /\ workers' = [workers EXCEPT
       ![w].pc = IF workers[w].result /\ ~execution_complete_
                   THEN "t698" ELSE "t703",
       ![w].i = IF workers[w].result /\ ~execution_complete_ THEN @ + 1 ELSE @]
  /\ UNCHANGED <<execution_complete_, last_execution_status_, trajectories_,
                 execution_state_mutex_, handle, WorkerVarsFrame>>

\* lines 873-883: getCurrentExpectedTrajectoryIndex(), the pairs it may return;
\* the position that lower_bound finds depends on the time of the call
getCurrentExpectedTrajectoryIndex ==
  IF current_context_ < 0 THEN {<<-1, -1>>}
  ELSE IF time_index_ = <<>> THEN {<<current_context_, -1>>}
  ELSE {<<current_context_, pos>> : pos \in 0..Len(time_index_)}

\* ----------------- worker: its own stopExecution(false), line 838 -> 618-658
WS620(w) ==
  /\ ~terminated
  /\ UNCHANGED nonExecVars
  /\ workers[w].pc = "ws620"
  /\ workers' = [workers EXCEPT ![w].pc =
                   IF execution_complete_ THEN "ws653" ELSE "ws622"]
  /\ UNCHANGED <<execution_complete_, last_execution_status_,
                 current_context_, time_index_, trajectories_, active_handles_,
                 execution_state_mutex_, handle, WorkerVarsFrame>>

WS622(w) ==
  /\ ~terminated
  /\ UNCHANGED nonExecVars
  /\ workers[w].pc = "ws622"
  /\ execution_state_mutex_ = NoOwner
  /\ IF ~execution_complete_
       THEN /\ execution_complete_' = TRUE
            /\ handle' = Cancelled(Range(active_handles_))
            /\ execution_state_mutex_' = WorkerOwner(w)
            /\ workers' = [workers EXCEPT ![w].pc = "ws638"]
       ELSE /\ workers' = [workers EXCEPT ![w].pc = "p840"]
            /\ UNCHANGED <<execution_complete_, handle, execution_state_mutex_>>
  /\ UNCHANGED <<last_execution_status_, current_context_, time_index_, trajectories_,
                 active_handles_, WorkerVarsFrame>>

WS638(w) ==
  /\ ~terminated
  /\ UNCHANGED nonExecVars
  /\ workers[w].pc = "ws638"
  /\ last_execution_status_' = "PREEMPTED"
  /\ execution_state_mutex_' = NoOwner
  /\ workers' = [workers EXCEPT ![w].pc = "ws643"]
  /\ UNCHANGED <<execution_complete_, current_context_, time_index_, trajectories_,
                 active_handles_, handle, WorkerVarsFrame>>

\* lines 643 and 653-655 in the worker: execution_thread_->join().  The pointer
\* names the worker itself for as long as it runs (every other join waits for
\* its end), so the join never returns: the thread blocks on its own completion
\* for ever (no step), or boost::thread::join throws thread_resource_error,
\* which leaves the thread function and ends the process.
WSJoin(w) ==
  /\ ~terminated
  /\ UNCHANGED nonExecVars
  /\ workers[w].pc \in {"ws643", "ws653"}
  /\ execution_thread_ = w
  /\ terminated' = TRUE
  /\ UNCHANGED <<execution_complete_, last_execution_status_,
                 current_context_, time_index_, trajectories_, active_handles_,
                 execution_thread_, execution_state_mutex_, workers, handle,
                 fg, nexec, ncalls>>

\* ------------------------------------------------------- controller handles
\* a running trajectory ends on its controller, with success or with a failure
HandleFinish(c) ==
  /\ ~terminated
  /\ UNCHANGED nonExecVars
  /\ handle[c] = "running"
  /\ \E st \in {"SUCCEEDED", "FAILED"} :
        handle' = [handle EXCEPT ![c] = st]
  /\ UNCHANGED <<execution_complete_, last_execution_status_,
                 current_context_, time_index_, trajectories_, active_handles_,
                 execution_thread_, execution_state_mutex_, workers, fg,
                 terminated, nexec, ncalls>>

\* ============================================ controller selection, 182-439
\* the names of the controllers the manager knows: the keys of known_controllers_
CtlNames == DOMAIN known_controllers_
Joints == 1..MaxJoints

\* ControllerInformation: joints_, and state_.active_ / state_.default_ as
\* last read from the controller manager (the states are taken to be fresh and
\* not to change during one call of selectControllers)
ControllerInformation ==
  [joints_ : SUBSET Joints, active_ : BOOLEAN, default_ : BOOLEAN]

NoCall == [called |-> FALSE, actuated_joints |-> {},
           available_controllers |-> <<>>, ok |-> FALSE,
           selected_controllers |-> <<>>]

\* a loop that would record an overlap only in the entry of the outer
\* iterator, and only against later names
reloadOverlapFromOneWay(k, ov, table) ==
  LET it == ((k - 1) \div Cardinality(DOMAIN table)) + 1
      jt == ((k - 1) % Cardinality(DOMAIN table)) + 1
  IN IF it < jt /\ table[it].joints_ \cap table[jt].joints_ # {}
       THEN [ov EXCEPT ![it] = @ \cup {jt}]
       ELSE ov

\* lines 199-212 of reloadControllerInformation, one step of the double loop:
\* pair k of (it, jt), both in the order of the names; an intersecting pair
\* of different controllers is entered in both overlap sets
reloadOverlapFrom(k, ov, table) ==
  LET it == ((k - 1) \div Cardinality(DOMAIN table)) + 1
      jt == ((k - 1) % Cardinality(DOMAIN table)) + 1
  IN IF it # jt /\ table[it].joints_ \cap table[jt].joints_ # {}
       THEN [ov EXCEPT ![it] = @ \cup {jt}, ![jt] = @ \cup {it}]
       ELSE ov

\* lines 199-212: the overlap sets after the double loop over the table
RECURSIVE reloadOverlapLoop(_, _, _)
reloadOverlapLoop(k, ov, table) ==
  IF k > Cardinality(DOMAIN table) * Cardinality(DOMAIN table) THEN ov
  ELSE reloadOverlapLoop(k + 1, reloadOverlapFrom(k, ov, table), table)
reloadOverlap(table) ==
  reloadOverlapLoop(1, [c \in DOMAIN table |-> {}], table)

\* an entry that would name every other controller as overlapping
overlapping_controllers_All(c) == CtlNames \ {c}

\* ControllerInformation::overlapping_controllers_ of the entry of c
overlapping_controllers_(c) == overlapping[c]

\* a check that would accept every combination
checkControllerCombinationAny(selected, actuated_joints) == TRUE

\* lines 241-264: the joints of the selected controllers include the actuated
checkControllerCombination(selected, actuated_joints) ==
  actuated_joints \subseteq
    UNION {known_controllers_[selected[k]].joints_ : k \in 1..Len(selected)}

\* lines 266-294: the combinations of controller_count controllers, taken in
\* the order of available_controllers from start_index on, none overlapping an
\* earlier one of the combination, that pass checkControllerCombination; in
\* the order they are pushed to selected_options
RECURSIVE generateControllerCombination(_, _, _, _, _)
generateControllerCombination(start_index, controller_count, available_controllers, selected_controllers, actuated_joints) ==
  IF Len(selected_controllers) = controller_count
    THEN IF checkControllerCombination(selected_controllers, actuated_joints)
           THEN <<selected_controllers>> ELSE <<>>
    ELSE IF start_index > Len(available_controllers) THEN <<>>
    ELSE LET c == available_controllers[start_index]
             overlap == \E j \in 1..Len(selected_controllers) :
                          selected_controllers[j] \in overlapping_controllers_(c)
         IN (IF overlap THEN <<>>
             ELSE generateControllerCombination(
                    start_index + 1, controller_count, available_controllers,
                    Append(selected_controllers, c), actuated_joints))
            \o generateControllerCombination(
                 start_index + 1, controller_count, available_controllers,
                 selected_controllers, actuated_joints)

\* lines 364-375: the counts the ranking uses
nrdefault(option) ==
  Cardinality({k \in 1..Len(option) : known_controllers_[option[k]].default_})
nractive(option) ==
  Cardinality({k \in 1..Len(option) : known_controllers_[option[k]].active_})
RECURSIVE nrjoints(_)
nrjoints(option) ==
  IF option = <<>> THEN 0
  ELSE Cardinality(known_controllers_[Head(option)].joints_)
         + nrjoints(Tail(option))

\* a comparison that would rank by the default controllers alone
OrderPotentialControllerCombinationDefaultOnly(a, b) ==
  nrdefault(a) > nrdefault(b)

\* lines 296-319: OrderPotentialControllerCombination::operator()
OrderPotentialControllerCombination(a, b) ==
  IF nrdefault(a) > nrdefault(b) THEN TRUE
  ELSE IF nrdefault(a) < nrdefault(b) THEN FALSE
  ELSE IF nrjoints(a) < nrjoints(b) THEN TRUE
  ELSE IF nrjoints(a) > nrjoints(b) THEN FALSE
  ELSE IF nractive(a) < nractive(b) THEN TRUE
  ELSE FALSE

\* a test that would take every controller for active
areControllersActiveAlways(controllers) == TRUE

\* lines 404-415
areControllersActive(controllers) ==
  \A k \in 1..Len(controllers) : known_controllers_[controllers[k]].active_

\* the options that std::sort (line 383) may put before all others of the set:
\* those no other option is ordered before (the order among equivalent
\* options is not specified)
FirstInOrder(options) ==
  {a \in options : \A b \in options : ~OrderPotentialControllerCombination(b, a)}

\* lines 327-401: the combinations findControllers may return; none when it
\* returns false
findControllers(actuated_joints, controller_count, available_controllers) ==
  LET selected_options ==
        Range(generateControllerCombination(1, controller_count,
                available_controllers, <<>>, actuated_joints))
      loaded == {o \in selected_options : areControllersActive(o)}
  IN IF ~manage_controllers_ /\ loaded # {}
       THEN FirstInOrder(loaded)
       ELSE FirstInOrder(selected_options)

\* lines 426-434: the first larger count whose findControllers result is
\* fully active replaces the selection
RECURSIVE OtherOption(_, _, _, _)
OtherOption(j, actuated_joints, available_controllers, selected_controllers) ==
  IF j > Len(available_controllers) THEN {selected_controllers}
  ELSE LET other == findControllers(actuated_joints, j, available_controllers)
           act == {o \in other : areControllersActive(o)}
       IN (IF act # {} THEN act ELSE {})
          \cup (IF other \ act # {} \/ other = {}
                  THEN OtherOption(j + 1, actuated_joints,
                                   available_controllers, selected_controllers)
                  ELSE {})

\* lines 417-439: the selections selectControllers may return, from count i on;
\* none when it returns false
RECURSIVE selectControllers(_, _, _)
selectControllers(i, actuated_joints, available_controllers) ==
  IF i > Len(available_controllers) THEN {}
  ELSE LET found == findControllers(actuated_joints, i, available_controllers)
       IN IF found = {}
            THEN selectControllers(i + 1, actuated_joints,
                                   available_controllers)
            ELSE UNION {IF ~manage_controllers_ /\ ~areControllersActive(sel)
                          THEN OtherOption(i + 1, actuated_joints,
                                           available_controllers, sel)
                          ELSE {sel} : sel \in found}

\* ------------------------------------------- distributeTrajectory, 441-537
\* the default-constructed moveit_msgs::RobotTrajectory of parts.resize (444)
EmptyJointTrajectory == [joint_names |-> <<>>, header |-> 0, points |-> <<>>]
EmptyMultiDOFJointTrajectory ==
  [joint_names |-> <<>>, frame_ids |-> <<>>, child_frame_ids |-> <<>>,
   points |-> <<>>]
EmptyRobotTrajectory ==
  [joint_trajectory |-> EmptyJointTrajectory,
   multi_dof_joint_trajectory |-> EmptyMultiDOFJointTrajectory]

\* the vector std::set_intersection writes (lines 462-469): the common names
\* in increasing order
RECURSIVE SortedSeq(_)
SortedSeq(S) ==
  IF S = {} THEN <<>>
  ELSE LET m == CHOOSE x \in S : \A y \in S : x <= y
       IN <<m>> \o SortedSeq(S \ {m})

\* index[name] of lines 481-483 and 507-509, counted from 1: the last position
\* of the name among the trajectory's joint names
IndexOf(joint_names, name) ==
  CHOOSE j \in 1..Len(joint_names) :
    /\ joint_names[j] = name
    /\ \A k \in (j + 1)..Len(joint_names) : joint_names[k] # name

\* lines 510-512 and 484-487
Bijection(jnames, joint_names) ==
  [j \in 1..Len(jnames) |-> IndexOf(joint_names, jnames[j])]

\* a value of the point taken through the bijection, lines 519-520
Permuted(values, bijection) ==
  IF values = <<>> THEN <<>>
  ELSE [k \in 1..Len(bijection) |-> values[bijection[k]]]

\* a copy that would drop the time of the point
SinglePartPointNoTime(point, bijection) ==
  [time_from_start |-> 0,
   positions |-> Permuted(point.positions, bijection),
   velocities |-> Permuted(point.velocities, bijection),
   accelerations |-> Permuted(point.accelerations, bijection)]

\* lines 516-533: point j of the part of the single-DOF trajectory
SinglePartPoint(point, bijection) ==
  [time_from_start |-> point.time_from_start,
   positions |-> Permuted(point.positions, bijection),
   velocities |-> Permuted(point.velocities, bijection),
   accelerations |-> Permuted(point.accelerations, bijection)]

\* lines 496-501: point j of the part of the multi-DOF trajectory
MultiDOFPartPoint(point, bijection) ==
  [time_from_start |-> point.time_from_start,
   poses |-> [k \in 1..Len(bijection) |-> point.poses[bijection[k]]]]

\* lines 486-489: a frame id is copied when the trajectory has one at the index
FrameIds(frame_ids, bijection) ==
  [j \in 1..Len(bijection) |->
     IF Len(frame_ids) >= bijection[j] THEN frame_ids[bijection[j]] ELSE 0]

\* lines 474-502
MultiDOFPart(mdof, joints_) ==
  LET intersect_mdof == SortedSeq(joints_ \cap Range(mdof.joint_names))
      bijection == Bijection(intersect_mdof, mdof.joint_names)
  IN IF intersect_mdof = <<>> THEN EmptyMultiDOFJointTrajectory
     ELSE [joint_names |-> intersect_mdof,
           frame_ids |-> FrameIds(mdof.frame_ids, bijection),
           child_frame_ids |-> FrameIds(mdof.child_frame_ids, bijection),
           points |-> [j \in 1..Len(mdof.points) |->
                         MultiDOFPartPoint(mdof.points[j], bijection)]]

\* a part that would carry every joint of the trajectory
SinglePartAllJoints(single, joints_) == single

\* lines 503-534
SinglePart(single, joints_) ==
  LET intersect_single == SortedSeq(joints_ \cap Range(single.joint_names))
      bijection == Bijection(intersect_single, single.joint_names)
  IN IF intersect_single = <<>> THEN EmptyJointTrajectory
     ELSE [joint_names |-> intersect_single,
           header |-> single.header,
           points |-> [j \in 1..Len(single.points) |->
                         SinglePartPoint(single.points[j], bijection)]]

\* the first controller of the list that is not known, Len + 1 when all are
FirstUnknown(controllers) ==
  LET unknown == {i \in 1..Len(controllers) : controllers[i] \notin CtlNames}
  IN IF unknown = {} THEN Len(controllers) + 1
     ELSE CHOOSE i \in unknown : \A k \in unknown : i <= k

\* lines 441-537: the value returned and parts as the call leaves it (the
\* parts from an unknown controller on stay default-constructed)
distributeTrajectory(trajectory, controllers) ==
  LET stop == FirstUnknown(controllers)
  IN [ok |-> stop > Len(controllers),
      parts |-> [i \in 1..Len(controllers) |->
                   IF i >= stop THEN EmptyRobotTrajectory
                   ELSE [joint_trajectory |->
                           SinglePart(trajectory.joint_trajectory,
                                      known_controllers_[controllers[i]].joints_),
                         multi_dof_joint_trajectory |->
                           MultiDOFPart(trajectory.multi_dof_joint_trajectory,
                                        known_controllers_[controllers[i]].joints_)]]]

NoDistCall ==
  [called |-> FALSE, trajectory |-> EmptyRobotTrajectory, controllers |-> <<>>,
   ok |-> FALSE, parts |-> <<>>]

NoEnsureCall ==
  [called |-> FALSE, controllers |-> <<>>, ok |-> FALSE,
   controllers_to_activate |-> <<>>, controllers_to_deactivate |-> <<>>]


\* the lists configure() passes as available_controllers: every known name
\* in map order when the caller gave none (lines 565-566; the empty list when
\* the controller manager reports no controller), else the caller's list,
\* whose names are all known (lines 589-602) and may repeat
AvailableLists ==
  {[k \in CtlNames |-> k]} \cup UNION {[1..n -> CtlNames] : n \in 0..MaxUserList}

SelInit ==
  /\ known_controllers_ \in [1..MaxCtl -> ControllerInformation]
  /\ overlapping = reloadOverlap(known_controllers_)
  /\ manage_controllers_ \in BOOLEAN
  /\ selCall = NoCall
  /\ distCall = NoDistCall
  /\ ensCall = NoEnsureCall

SelIdle ==
  /\ known_controllers_ = [c \in 1..MaxCtl |->
                            [joints_ |-> {}, active_ |-> FALSE,
                             default_ |-> FALSE]]
  /\ overlapping = reloadOverlap(known_controllers_)
  /\ manage_controllers_ = TRUE
  /\ selCall = NoCall
  /\ distCall = NoDistCall
  /\ ensCall = NoEnsureCall

\* a call selectControllers(actuated_joints, available_controllers, selected)
SelectControllers ==
  /\ ~selCall.called
  /\ \E actuated_joints \in SUBSET Joints \ {{}} :
     \E available_controllers \in AvailableLists :
       LET res == selectControllers(1, actuated_joints, available_controllers)
       IN \/ /\ res = {}
             /\ selCall' = [called |-> TRUE,
                            actuated_joints |-> actuated_joints,
                            available_controllers |-> available_controllers,
                            ok |-> FALSE, selected_controllers |-> <<>>]
          \/ \E sel \in res :
               selCall' = [called |-> TRUE,
                           actuated_joints |-> actuated_joints,
                           available_controllers |-> available_controllers,
                           ok |-> TRUE, selected_controllers |-> sel]
  /\ UNCHANGED <<known_controllers_, overlapping, manage_controllers_, distCall, ensCall>>
  /\ UNCHANGED nonSelVars


\* ------------------------------------------------- calls on the controllers
\* the trajectories handed to distributeTrajectory: joint names without
\* repetition, up to MaxPoints points with times in 0..MaxTime, whose
\* positions, velocities and accelerations are empty or one value per joint
\* (the value tells the joint and the point), and a stamped header
JointNameLists(n) ==
  {s \in UNION {[1..k -> Joints] : k \in 0..n} :
     \A a, b \in DOMAIN s : a # b => s[a] # s[b]}
PointTimes(n) == UNION {[1..k -> 0..MaxTime] : k \in 0..n}
PointValues(joint_names, j, present) ==
  IF present THEN [k \in 1..Len(joint_names) |-> 10 * joint_names[k] + j]
  ELSE <<>>
JointTrajectory(joint_names, times, fields) ==
  [joint_names |-> joint_names, header |-> 1,
   points |-> [j \in 1..Len(times) |->
     [time_from_start |-> times[j],
      positions |-> PointValues(joint_names, j, "positions" \in fields),
      velocities |-> PointValues(joint_names, j, "velocities" \in fields),
      accelerations |->
        PointValues(joint_names, j, "accelerations" \in fields)]]]
MultiDOFJointTrajectory(joint_names, times) ==
  [joint_names |-> joint_names,
   frame_ids |-> joint_names, child_frame_ids |-> <<>>,
   points |-> [j \in 1..Len(times) |->
     [time_from_start |-> times[j],
      poses |-> PointValues(joint_names, j, TRUE)]]]
\* the controller lists of a call: names of known controllers and the name 0,
\* which no controller has
ControllerLists == UNION {[1..n -> 0..MaxCtl] : n \in 1..MaxUserList}

\* a call distributeTrajectory(trajectory, controllers, parts)
DistributeTrajectory ==
  /\ ~distCall.called
  /\ \E joint_names \in JointNameLists(MaxJoints), times \in PointTimes(MaxPoints), fields \in {{}, {"positions"}, {"positions", "velocities"}, {"positions", "velocities", "accelerations"}} :
     \E mdof_names \in JointNameLists(MaxMultiDOF), mdof_times \in PointTimes(MaxMultiDOF) :
     \E controllers \in ControllerLists :
       LET trajectory ==
             [joint_trajectory |-> JointTrajectory(joint_names, times, fields),
              multi_dof_joint_trajectory |->
                MultiDOFJointTrajectory(mdof_names, mdof_times)]
           res == distributeTrajectory(trajectory, controllers)
       IN distCall' = [called |-> TRUE, trajectory |-> trajectory,
                       controllers |-> controllers, ok |-> res.ok,
                       parts |-> res.parts]
  /\ UNCHANGED <<known_controllers_, overlapping, manage_controllers_, selCall, ensCall>>
  /\ UNCHANGED nonSelVars

\* the controller table before a call of distributeTrajectory: the joints of
\* each controller (the call reads nothing else)
DistInit ==
  /\ known_controllers_ \in
       [1..MaxCtl -> [joints_ : SUBSET Joints, active_ : {FALSE},
                     default_ : {FALSE}]]
  /\ overlapping = reloadOverlap(known_controllers_)
  /\ manage_controllers_ = TRUE
  /\ selCall = NoCall
  /\ distCall = NoDistCall
  /\ ensCall = NoEnsureCall


\* --------------------------------------- ensureActiveControllers, 923-1019
\* std::includes (line 1017) as the standard libraries implement it: one pass
\* over both ranges that takes each for sorted
RECURSIVE includes(_, _)
includes(range1, range2) ==
  IF range2 = <<>> THEN TRUE
  ELSE IF range1 = <<>> THEN FALSE
  ELSE IF Head(range2) < Head(range1) THEN FALSE
  ELSE IF Head(range1) < Head(range2) THEN includes(Tail(range1), range2)
  ELSE includes(Tail(range1), Tail(range2))

\* lines 1012-1016
originally_active == {c \in CtlNames : known_controllers_[c].active_}

\* lines 931-953: the controllers to activate, in the order of the list
RECURSIVE ToActivate(_)
ToActivate(controllers) ==
  IF controllers = <<>> THEN <<>>
  ELSE (IF known_controllers_[Head(controllers)].active_ THEN <<>>
        ELSE <<Head(controllers)>>)
       \o ToActivate(Tail(controllers))

\* lines 944-952: the active controllers that overlap one to activate, in the
\* order they are pushed
RECURSIVE ToDeactivate(_)
ToDeactivate(to_activate) ==
  IF to_activate = <<>> THEN <<>>
  ELSE SortedSeq({d \in overlapping_controllers_(Head(to_activate)) :
                    known_controllers_[d].active_})
       \o ToDeactivate(Tail(to_activate))

JointsOfList(controllers) ==
  UNION {known_controllers_[controllers[k]].joints_ :
           k \in 1..Len(controllers)}

\* a candidate list that would hold every known controller
possible_additional_controllersAll(to_activate) == SortedSeq(CtlNames)

\* lines 964-976: the known controllers that overlap none to activate
possible_additional_controllers(to_activate) ==
  SortedSeq({c \in CtlNames :
               \A k \in 1..Len(to_activate) :
                 to_activate[k] \notin overlapping_controllers_(c)})

\* lines 923-1019: what a call may return and the lists it hands to
\* switchControllers (line 1001), whose answer is the controller manager's
ensureActiveControllers(controllers) ==
  IF manage_controllers_
    THEN IF \E i \in 1..Len(controllers) : controllers[i] \notin CtlNames
           THEN {[ok |-> FALSE, controllers_to_activate |-> <<>>,
                  controllers_to_deactivate |-> <<>>]}
         ELSE
           LET to_activate == ToActivate(controllers)
               to_deactivate == ToDeactivate(to_activate)
               diff == JointsOfList(to_deactivate) \ JointsOfList(to_activate)
               additional ==
                 IF diff = {} THEN {<<>>}
                 ELSE selectControllers(1, diff,
                        possible_additional_controllers(to_activate))
           IN IF additional = {}
                THEN {[ok |-> FALSE, controllers_to_activate |-> <<>>,
                       controllers_to_deactivate |-> <<>>]}
              ELSE UNION {
                IF to_activate \o a = <<>> /\ to_deactivate = <<>>
                  THEN {[ok |-> TRUE, controllers_to_activate |-> <<>>,
                         controllers_to_deactivate |-> <<>>]}
                  ELSE {[ok |-> b, controllers_to_activate |-> to_activate \o a,
                         controllers_to_deactivate |-> to_deactivate] :
                          b \in BOOLEAN} : a \in additional}
    ELSE {[ok |-> includes(SortedSeq(originally_active), controllers),
           controllers_to_activate |-> <<>>,
           controllers_to_deactivate |-> <<>>]}

\* a call ensureActiveControllers(controllers)
EnsureActiveControllers ==
  /\ ~ensCall.called
  /\ \E controllers \in ControllerLists :
     \E res \in ensureActiveControllers(controllers) :
       ensCall' = [called |-> TRUE, controllers |-> controllers,
                   ok |-> res.ok,
                   controllers_to_activate |-> res.controllers_to_activate,
                   controllers_to_deactivate |-> res.controllers_to_deactivate]
  /\ UNCHANGED <<known_controllers_, overlapping, manage_controllers_, selCall, distCall>>
  /\ UNCHANGED nonSelVars

\* ----------------------------------------------------- configure, 539-610
\* the tables a reload inside configure may load
ReloadedTables ==
  [CtlNames -> [joints_ : SUBSET Joints, active_ : {FALSE},
                default_ : {FALSE}]]

\* lines 546-550
actuated_joints_of(trajectory) ==
  Range(trajectory.multi_dof_joint_trajectory.joint_names)
    \cup Range(trajectory.joint_trajectory.joint_names)

\* lines 564-566: every known name, in map order
all_controller_names == [k \in CtlNames |-> k]

\* what a failed selectControllers leaves in selCall
SelectFailed(actuated_joints, available_controllers) ==
  [called |-> TRUE, actuated_joints |-> actuated_joints,
   available_controllers |-> available_controllers,
   ok |-> FALSE, selected_controllers |-> <<>>]

\* lines 567-570 and 603-606: a selection was found and the trajectory is
\* distributed over it; both read the table of the state reached
SelectAndDistribute(trajectory, available_controllers, sel) ==
  /\ selCall' = [called |-> TRUE,
                 actuated_joints |-> actuated_joints_of(trajectory),
                 available_controllers |-> available_controllers,
                 ok |-> TRUE, selected_controllers |-> sel]
  /\ distCall' = [called |-> TRUE, trajectory |-> trajectory,
                  controllers |-> sel,
                  ok |-> distributeTrajectory(trajectory, sel)'.ok,
                  parts |-> distributeTrajectory(trajectory, sel)'.parts]

\* configure(context, trajectory, controllers) as push calls it (line 164):
\* context.controllers_ is selCall.selected_controllers and
\* context.trajectory_parts_ is distCall.parts; it returns true when both
\* calls were made and succeeded
configure(trajectory, controllers) ==
  LET actuated_joints == actuated_joints_of(trajectory)
      known == \A i \in 1..Len(controllers) : controllers[i] \in CtlNames
  IN IF \/ /\ trajectory.multi_dof_joint_trajectory.points = <<>>
           /\ trajectory.joint_trajectory.points = <<>>
        \/ actuated_joints = {}
       THEN UNCHANGED selVars
     ELSE IF controllers = <<>>
       THEN LET res == selectControllers(1, actuated_joints, all_controller_names)
            IN IF res # {}
                 THEN /\ UNCHANGED <<known_controllers_, overlapping,
                                     manage_controllers_, ensCall>>
                      /\ \E sel \in res :
                           SelectAndDistribute(trajectory, all_controller_names, sel)
                 ELSE /\ known_controllers_' \in ReloadedTables
                      /\ overlapping' = reloadOverlap(known_controllers_')
                      /\ UNCHANGED <<manage_controllers_, ensCall>>
                      /\ LET again == selectControllers(1, actuated_joints,
                                                        all_controller_names)'
                         IN IF again # {}
                              THEN \E sel \in again :
                                     SelectAndDistribute(trajectory,
                                                         all_controller_names, sel)
                              ELSE /\ selCall' = SelectFailed(actuated_joints,
                                                              all_controller_names)
                                   /\ UNCHANGED distCall
     ELSE IF ~known
       THEN /\ known_controllers_' \in ReloadedTables
            /\ overlapping' = reloadOverlap(known_controllers_')
            /\ UNCHANGED <<manage_controllers_, selCall, distCall, ensCall>>
     ELSE LET res == selectControllers(1, actuated_joints, controllers)
          IN /\ UNCHANGED <<known_controllers_, overlapping,
                            manage_controllers_, ensCall>>
             /\ IF res # {}
                  THEN \E sel \in res :
                         SelectAndDistribute(trajectory, controllers, sel)
                  ELSE /\ selCall' = SelectFailed(actuated_joints, controllers)
                       /\ UNCHANGED distCall

\* the trajectories given to configure: the points carry positions only
ConfigureTrajectories ==
  {[joint_trajectory |-> JointTrajectory(joint_names, times, {"positions"}),
    multi_dof_joint_trajectory |-> MultiDOFJointTrajectory(mdof_names, mdof_times)] :
     joint_names \in JointNameLists(MaxJoints), times \in PointTimes(MaxConfigurePoints),
     mdof_names \in JointNameLists(MaxMultiDOF), mdof_times \in PointTimes(MaxMultiDOF)}

\* the calls of configure: any trajectory with the empty list or a list of
\* known names; with a list that has an unknown name, which ends the call at
\* line 601 whatever the joints and points are, one trajectory with a point
ConfigureCalls ==
  {<<t, c>> : t \in ConfigureTrajectories,
              c \in {<<>>} \cup UNION {[1..n -> CtlNames] : n \in 1..MaxUserList}}
    \cup {<<[joint_trajectory |-> JointTrajectory(<<1>>, <<0>>, {"positions"}),
             multi_dof_joint_trajectory |-> MultiDOFJointTrajectory(<<>>, <<>>)], c>> :
            c \in ControllerLists \ UNION {[1..n -> CtlNames] : n \in 1..MaxUserList}}

\* a call of configure from push, with the trajectory and the controller list
\* of the caller
Configure ==
  /\ ~selCall.called /\ ~distCall.called
  /\ \E call \in ConfigureCalls : configure(call[1], call[2])
  /\ UNCHANGED nonSelVars

\* ------------------------------------ reloadControllerInformation, 182-214
\* what the controller manager reports at a reload: the joints of each
\* controller and, at the next state update, whether it is active

\* a call reloadControllerInformation(), before the calls that select
ReloadControllerInformation ==
  /\ ~selCall.called /\ ~ensCall.called /\ ~distCall.called
  /\ known_controllers_' \in
       [CtlNames -> [joints_ : SUBSET Joints, active_ : BOOLEAN,
                     default_ : {FALSE}]]
  /\ overlapping' = reloadOverlap(known_controllers_')
  /\ UNCHANGED <<manage_controllers_, selCall, distCall, ensCall>>
  /\ UNCHANGED nonSelVars

\* ======================================== planner: environment_chain3d.cpp
Dofs == 1..MaxDofs
Configs == [Dofs -> (1 - HalfTurn)..HalfTurn]
RequestConfigs == [Dofs -> (1 - MaxAngle)..MaxAngle]

Abs(x) == IF x < 0 THEN -x ELSE x
Max(S) == CHOOSE x \in S : \A y \in S : y <= x
Clamp(x, lo, hi) == IF x < lo THEN lo ELSE IF x > hi THEN hi ELSE x

\* an angle brought back into (-HalfTurn, HalfTurn]
Wrap(a) == IF a > HalfTurn THEN a - 2 * HalfTurn
           ELSE IF a <= -HalfTurn THEN a + 2 * HalfTurn ELSE a

\* JointMotionWrapper::getIntegerDistance(a, b, delta): ceil(|d| / delta), d the
\* shortest signed angular difference of a continuous joint, else the
\* difference taken within the joint's limits
getIntegerDistance(j, a, b, delta) ==
  LET d == IF joint_is_continuous[j] THEN Wrap(b - a)
           ELSE Clamp(b, -JointLimit, JointLimit)
                  - Clamp(a, -JointLimit, JointLimit)
  IN (Abs(d) + delta - 1) \div delta

\* a distance that would take every pair of configurations for far apart
getJointDistanceIntegerMaxFar(angles1, angles2) == 2

\* lines 574-589
getJointDistanceIntegerMax(angles1, angles2) ==
  Max({0} \cup {getIntegerDistance(j, angles1[j], angles2[j],
                                   LONG_RANGE_JOINT_DIFF) : j \in Dofs})

\* lines 558-572: the per-joint integer distances of joints j..MaxDofs added
RECURSIVE getJointDistanceIntegerSumFrom(_, _, _)
getJointDistanceIntegerSumFrom(j, angles1, angles2) ==
  IF j > MaxDofs THEN 0
  ELSE getIntegerDistance(j, angles1[j], angles2[j], LONG_RANGE_JOINT_DIFF)
         + getJointDistanceIntegerSumFrom(j + 1, angles1, angles2)

getJointDistanceIntegerSum(angles1, angles2) ==
  getJointDistanceIntegerSumFrom(1, angles1, angles2)

\* lines 633-655: the heuristic between two entries of the table
getEndEffectorHeuristic(table, from_stateID, to_stateID) ==
  getJointDistanceIntegerSum(table[from_stateID + 1].angles,
                             table[to_stateID + 1].angles) * JOINT_DIST_MULT

\* lines 101-109
GetGoalHeuristic(stateID) ==
  getEndEffectorHeuristic(state_ID_to_coord_table_, stateID, goal_hash_entry_)

\* lines 489-504: a +LONG_RANGE_JOINT_DIFF and a -LONG_RANGE_JOINT_DIFF
\* primitive per active joint, in joint order
setMotionPrimitives ==
  [k \in 1..(2 * MaxDofs) |->
     [joint |-> (k + 1) \div 2,
      delta |-> IF k % 2 = 1 THEN LONG_RANGE_JOINT_DIFF
                ELSE -LONG_RANGE_JOINT_DIFF]]

\* SingleJointMotionPrimitive::generateSuccessorState: the joint's angle is
\* advanced by delta; wrapped for a continuous joint, rejected outside the
\* limits for a bounded one
SuccessorAngles(action, angles) ==
  [angles EXCEPT ![action.joint] =
     IF joint_is_continuous[action.joint] THEN Wrap(@ + action.delta)
     ELSE @ + action.delta]
generateSuccessorState(action, angles) ==
  joint_is_continuous[action.joint]
    \/ Abs(angles[action.joint] + action.delta) <= JointLimit

\* convertJointAnglesToCoord: each angle goes to its bucket of width
\* angle_discretization_
convertJointAnglesToCoord(angles) ==
  [j \in Dofs |-> angles[j] \div angle_discretization_]

\* a collision check that would find every configuration free
InCollisionNever(angles) == FALSE

\* checkCollisionDistanceField on the robot at the given joint values
InCollision(angles) == angles \in obstacles

\* the voxel of the tip link (lines 657-674): the tip is taken to move along
\* axis k with joint k; worldToGrid fails outside the distance field
TipVoxel(angles) ==
  [k \in 1..3 |-> IF k \in Dofs THEN angles[k] + HalfTurn - 1 ELSE 0]
getGridXYZInt(angles) ==
  \A k \in 1..3 : TipVoxel(angles)[k] >= 0 /\ TipVoxel(angles)[k] < grid_cells

\* EnvChain3DPlanningData::addHashEntry: the entry is appended and gets the
\* table's size as its stateID
addHashEntry(table, coord, angles, xyz, action) ==
  Append(table, [stateID |-> Len(table), coord |-> coord, angles |-> angles,
                 xyz |-> xyz, action |-> action])

\* EnvChain3DPlanningData::getHashEntry: the stateID of the entry stored under
\* coord (the first one inserted), -1 when there is none
getHashEntry(table, coord) ==
  LET found == {k \in 1..Len(table) : table[k].coord = coord}
  IN IF found = {} THEN -1
     ELSE table[CHOOSE k \in found : \A l \in found : k <= l].stateID

\* line 150 with the goal test left out
IsGoalNever(source_state_ID) == FALSE

\* line 150: goal state should be absorbing
IsGoal(source_state_ID) == source_state_ID = goal_hash_entry_

\* lines 179-313: the loop over possible_actions_ from index i on; yields the
\* table and the successor ids after the last primitive
RECURSIVE ExpandFrom(_, _, _, _)
ExpandFrom(i, source_angles, table, succ_idv) ==
  IF i > Len(possible_actions_) THEN [table |-> table, succ_idv |-> succ_idv]
  ELSE LET action == possible_actions_[i]
           succ_joint_angles == SuccessorAngles(action, source_angles)
           max_dist == getJointDistanceIntegerMax(
                         succ_joint_angles, table[goal_hash_entry_ + 1].angles)
           succ_coord == convertJointAnglesToCoord(succ_joint_angles)
           found == IF max_dist = 1 THEN goal_hash_entry_
                    ELSE getHashEntry(table, succ_coord)
       IN IF \/ ~generateSuccessorState(action, source_angles)
             \/ InCollision(succ_joint_angles)
             \/ ~getGridXYZInt(succ_joint_angles)
            THEN ExpandFrom(i + 1, source_angles, table, succ_idv)
            ELSE IF found = -1
              THEN ExpandFrom(i + 1, source_angles,
                     addHashEntry(table, succ_coord, succ_joint_angles,
                                  TipVoxel(succ_joint_angles), i - 1),
                     Append(succ_idv, Len(table)))
              ELSE ExpandFrom(i + 1, source_angles, table,
                              Append(succ_idv, found))

\* lines 506-510
calculateCost == 1000

NoSuccs ==
  [called |-> FALSE, id |-> -1, succ_idv |-> <<>>, cost_v |-> <<>>,
   out_of_bounds |-> FALSE, crashed |-> FALSE]

NoTraj ==
  [called |-> FALSE, state_ids |-> <<>>, ok |-> FALSE, joint_names |-> <<>>,
   points |-> <<>>]

\* the planning scene the environment is given: joint models, the distance
\* field (resolution and size) and the collision world
EnvInit ==
  /\ joint_is_continuous \in [Dofs -> BOOLEAN]
  /\ angle_discretization_ \in 1..MaxResolution
  /\ obstacles \in {O \in SUBSET RequestConfigs :
                      Cardinality(O) <= MaxObstacles}
  /\ grid_cells \in {HalfTurn + MaxAngle - 2, 2 * HalfTurn}
  /\ possible_actions_ = <<>>
  /\ state_ID_to_coord_table_ = <<>>
  /\ start_hash_entry_ = -1
  /\ goal_hash_entry_ = -1
  /\ setupResult = "none"
  /\ lastSuccs = NoSuccs
  /\ lastTraj = NoTraj

EnvIdle ==
  /\ joint_is_continuous = [j \in Dofs |-> FALSE]
  /\ angle_discretization_ = 1
  /\ obstacles = {}
  /\ grid_cells = 2 * HalfTurn
  /\ possible_actions_ = <<>>
  /\ state_ID_to_coord_table_ = <<>>
  /\ start_hash_entry_ = -1
  /\ goal_hash_entry_ = -1
  /\ setupResult = "none"
  /\ lastSuccs = NoSuccs
  /\ lastTraj = NoTraj


\* the value setupForMotionPlan returns false with (mres.error_code), or "ok"
SetupOutcome(scene, start_joint_values, goal_joint_values) ==
  IF scene \in {"no_world", "no_robot"}
    THEN "COLLISION_CHECKING_UNAVAILABLE"                    \* lines 354-365
  ELSE IF InCollision(start_joint_values)
    THEN "START_STATE_IN_COLLISION"                          \* lines 382-386
  ELSE IF scene = "size_mismatch"
    THEN "COLLISION_CHECKING_UNAVAILABLE"                    \* lines 393-400
  ELSE IF ~getGridXYZInt(start_joint_values)
    THEN "INVALID_ROBOT_STATE"                               \* lines 428-432
  ELSE IF InCollision(goal_joint_values)
    THEN "GOAL_IN_COLLISION"                                 \* lines 451-455
  ELSE IF ~getGridXYZInt(goal_joint_values)
    THEN "INVALID_GOAL_CONSTRAINTS"                          \* lines 463-467
  ELSE "ok"

\* lines 345-487: setupForMotionPlan with the planning scene and the request's
\* start state and goal joint constraints
setupForMotionPlan(scene, start_joint_values, goal_joint_values) ==
  LET outcome == SetupOutcome(scene, start_joint_values, goal_joint_values)
      withStart ==
        addHashEntry(state_ID_to_coord_table_,
                     convertJointAnglesToCoord(start_joint_values),
                     start_joint_values, TipVoxel(start_joint_values), 0)
      withGoal ==
        addHashEntry(withStart, convertJointAnglesToCoord(goal_joint_values),
                     goal_joint_values, TipVoxel(goal_joint_values), 0)
  IN /\ setupResult = "none"
     /\ setupResult' = outcome
     /\ possible_actions_' =                                 \* line 371
          IF scene \in {"no_world", "no_robot"} THEN possible_actions_
          ELSE setMotionPrimitives
     /\ start_hash_entry_' =                                 \* lines 433-436
          IF outcome \in {"GOAL_IN_COLLISION", "INVALID_GOAL_CONSTRAINTS", "ok"}
            THEN Len(state_ID_to_coord_table_)
            ELSE start_hash_entry_
     /\ goal_hash_entry_' =                                  \* lines 482-485
          IF outcome = "ok" THEN Len(withStart) ELSE goal_hash_entry_
     /\ state_ID_to_coord_table_' =
          IF outcome = "ok" THEN withGoal
          ELSE IF outcome \in {"GOAL_IN_COLLISION", "INVALID_GOAL_CONSTRAINTS"}
            THEN withStart
          ELSE state_ID_to_coord_table_
     /\ UNCHANGED <<joint_is_continuous, angle_discretization_, obstacles,
                    grid_cells, lastSuccs, lastTraj>>
     /\ UNCHANGED nonEnvVars

\* lines 345-487 called again on an environment that was set up before: the
\* planning data is not cleared, the entries are appended to the table as it is
\* and a pointer is overwritten only where the call gets as far as setting it
SetupAgain(scene, start_joint_values, goal_joint_values) ==
  LET outcome == SetupOutcome(scene, start_joint_values, goal_joint_values)
      withStart ==
        addHashEntry(state_ID_to_coord_table_,
                     convertJointAnglesToCoord(start_joint_values),
                     start_joint_values, TipVoxel(start_joint_values), 0)
      withGoal ==
        addHashEntry(withStart, convertJointAnglesToCoord(goal_joint_values),
                     goal_joint_values, TipVoxel(goal_joint_values), 0)
  IN /\ setupResult # "none"
     /\ Len(state_ID_to_coord_table_) + 2 <= MaxSetupEntries
     /\ setupResult' = outcome
     /\ possible_actions_' =                                 \* line 371
          IF scene \in {"no_world", "no_robot"} THEN possible_actions_
          ELSE setMotionPrimitives
     /\ start_hash_entry_' =                                 \* lines 433-436
          IF outcome \in {"GOAL_IN_COLLISION", "INVALID_GOAL_CONSTRAINTS", "ok"}
            THEN Len(state_ID_to_coord_table_)
            ELSE start_hash_entry_
     /\ goal_hash_entry_' =                                  \* lines 482-485
          IF outcome = "ok" THEN Len(withStart) ELSE goal_hash_entry_
     /\ state_ID_to_coord_table_' =
          IF outcome = "ok" THEN withGoal
          ELSE IF outcome \in {"GOAL_IN_COLLISION", "INVALID_GOAL_CONSTRAINTS"}
            THEN withStart
          ELSE state_ID_to_coord_table_
     /\ UNCHANGED <<joint_is_continuous, angle_discretization_, obstacles,
                    grid_cells, lastSuccs, lastTraj>>
     /\ UNCHANGED nonEnvVars

\* lines 69-78: InitializeMDPCfg(MDPCfg), success and the two ids when both
\* entry pointers are set
InitializeMDPCfg ==
  IF goal_hash_entry_ # -1 /\ start_hash_entry_ # -1
    THEN [ok |-> TRUE, startstateid |-> start_hash_entry_,
          goalstateid |-> goal_hash_entry_]
    ELSE [ok |-> FALSE, startstateid |-> -1, goalstateid |-> -1]

\* what GetSuccs returns after expanding from source_angles
Expanded(source_state_ID, r, out_of_bounds) ==
  [called |-> TRUE, id |-> source_state_ID, succ_idv |-> r.succ_idv,
   cost_v |-> [k \in 1..Len(r.succ_idv) |-> calculateCost],
   out_of_bounds |-> out_of_bounds, crashed |-> FALSE]

\* lines 138-315: GetSuccs(source_state_ID, succ_idv, cost_v).  A negative id
\* passes the tests of lines 150 and 155, and line 164 reads the table before
\* its first element: the read faults, or it yields some pointer whose angles
\* (any configuration) are expanded.
GetSuccs(source_state_ID) ==
  /\ setupResult = "ok"
  /\ ~lastSuccs.crashed
  /\ ~lastTraj.called
  /\ Len(state_ID_to_coord_table_) < MaxEntries
  /\ IF \/ IsGoal(source_state_ID)
        \/ source_state_ID > Len(state_ID_to_coord_table_) - 1
       THEN /\ lastSuccs' = [called |-> TRUE, id |-> source_state_ID,
                             succ_idv |-> <<>>, cost_v |-> <<>>,
                             out_of_bounds |-> FALSE, crashed |-> FALSE]
            /\ UNCHANGED state_ID_to_coord_table_
       ELSE IF source_state_ID < 0
         THEN \/ /\ lastSuccs' = [called |-> TRUE, id |-> source_state_ID,
                                  succ_idv |-> <<>>, cost_v |-> <<>>,
                                  out_of_bounds |-> TRUE, crashed |-> TRUE]
                 /\ UNCHANGED state_ID_to_coord_table_
              \/ \E source_joint_angles \in RequestConfigs :
                   LET r == ExpandFrom(1, source_joint_angles,
                                       state_ID_to_coord_table_, <<>>)
                   IN /\ state_ID_to_coord_table_' = r.table
                      /\ lastSuccs' = Expanded(source_state_ID, r, TRUE)
       ELSE LET r == ExpandFrom(
                       1, state_ID_to_coord_table_[source_state_ID + 1].angles,
                       state_ID_to_coord_table_, <<>>)
            IN /\ state_ID_to_coord_table_' = r.table
               /\ lastSuccs' = Expanded(source_state_ID, r, FALSE)
  /\ UNCHANGED <<joint_is_continuous, angle_discretization_, obstacles,
                 grid_cells, possible_actions_, start_hash_entry_,
                 goal_hash_entry_, setupResult, lastTraj>>
  /\ UNCHANGED nonEnvVars

\* convertFromStateIDsToAngles of the planning data: the angles of the
\* entries the ids name, in the order of the ids
convertFromStateIDsToAngles(table, state_ids) ==
  [j \in 1..Len(state_ids) |-> table[state_ids[j] + 1].angles]

\* a copy loop that would give every point the angles of the first id
populateTrajectoryFromStateIDSequenceFirst(state_ids) ==
  LET angle_vector ==
        convertFromStateIDsToAngles(state_ID_to_coord_table_, state_ids)
  IN [joint_names |-> [j \in Dofs |-> j],
      points |-> [i \in 1..Len(angle_vector) |->
                    [positions |-> angle_vector[1]]]]

\* lines 676-693: the trajectory filled from a sequence of state ids
populateTrajectoryFromStateIDSequence(state_ids) ==
  LET angle_vector ==
        convertFromStateIDsToAngles(state_ID_to_coord_table_, state_ids)
  IN [joint_names |-> [j \in Dofs |-> j],
      points |-> [i \in 1..Len(angle_vector) |->
                    [positions |-> angle_vector[i]]]]

\* the id sequences of a path: from the start entry on, ids of the table
PathsFromStart ==
  {p \in UNION {[1..n -> 0..(Len(state_ID_to_coord_table_) - 1)] :
                  n \in 1..MaxPath} : p[1] = start_hash_entry_}

\* a call populateTrajectoryFromStateIDSequence(state_ids, traj), made when
\* the search has ended
PopulateTrajectory ==
  /\ setupResult = "ok"
  /\ ~lastSuccs.crashed
  /\ ~lastTraj.called
  /\ \E state_ids \in PathsFromStart :
       LET traj == populateTrajectoryFromStateIDSequence(state_ids)
       IN lastTraj' = [called |-> TRUE, state_ids |-> state_ids, ok |-> TRUE,
                       joint_names |-> traj.joint_names,
                       points |-> traj.points]
  /\ UNCHANGED <<joint_is_continuous, angle_discretization_, obstacles,
                 grid_cells, possible_actions_, state_ID_to_coord_table_,
                 start_hash_entry_, goal_hash_entry_, setupResult, lastSuccs>>
  /\ UNCHANGED nonEnvVars


\* ------------------------------------- trajectory_execution_manager.cpp, 777-805
\* lines 777-805 of executePart: expected_trajectory_duration in milliseconds
\* for the parts of a context, the clock being at current_time.  The duration
\* of a part is computed only when its joint_trajectory has points; the stamp
\* of a part's multi_dof_joint_trajectory header is never set by
\* distributeTrajectory, hence never later than the clock.
expected_trajectory_duration(trajectory_parts, current_time) ==
  LET back(points) ==
        IF points = <<>> THEN 0 ELSE points[Len(points)].time_from_start
      d(part) ==
        IF part.joint_trajectory.points = <<>> THEN 0
        ELSE (IF part.joint_trajectory.header > current_time
                THEN part.joint_trajectory.header - current_time ELSE 0)
             + Max({back(part.joint_trajectory.points),
                    back(part.multi_dof_joint_trajectory.points)})
  IN (11 * TimeStepMs
        * Max({0} \cup {d(trajectory_parts[i]) :
                          i \in 1..Len(trajectory_parts)})) \div 10 + 500

\* ---------------------------------------------------------------------- Next
ForegroundStep(t) ==
  \/ Push(t) \/ StopCall(t) \/ ExecuteCall(t) \/ WaitCall(t)
  \/ S622(t) \/ S638(t) \/ S643(t) \/ S653(t) \/ X663(t)

WorkerStep(w) ==
  \/ T686(w) \/ T688(w) \/ T694(w) \/ T698(w) \/ T703(w) \/ T709(w) \/ T712(w)
  \/ P727(w) \/ P732(w) \/ P748(w) \/ P832(w) \/ P835(w) \/ P840(w) \/ P842(w)
  \/ P848(w) \/ P857(w)
  \/ WS620(w) \/ WS622(w) \/ WS638(w) \/ WSJoin(w)
  \/ UseAfterFree(w)

Next ==
  \/ \E t \in Threads : ForegroundStep(t)
  \/ \E t \in Threads : SpuriousWake(t)
  \/ \E w \in WorkerIds : WorkerStep(w)
  \/ \E c \in Controllers : HandleFinish(c)

Init == ExecInit /\ SelIdle /\ EnvIdle

Spec == Init /\ [][Next]_vars

\* the controller selection on its own
InitSel == ExecInit /\ SelInit /\ EnvIdle
SpecSel == InitSel /\ [][SelectControllers]_vars

\* distributeTrajectory on its own
InitDist == ExecInit /\ DistInit /\ EnvIdle
SpecDist == InitDist /\ [][DistributeTrajectory]_vars

\* ensureActiveControllers on its own
SpecEnsure == InitSel /\ [][EnsureActiveControllers]_vars

\* ensureActiveControllers of a managing manager on a registry of controllers
\* with joints, the active ones sharing no joint
InitEnsureDisjoint ==
  /\ ExecInit
  /\ known_controllers_ \in
       {table \in [1..MaxCoverCtl ->
                     [joints_ : SUBSET (1..MaxCoverJoints) \ {{}},
                      active_ : BOOLEAN, default_ : {FALSE}]] :
          \A c, d \in 1..MaxCoverCtl :
            (c # d /\ table[c].active_ /\ table[d].active_)
              => table[c].joints_ \cap table[d].joints_ = {}}
  /\ overlapping = reloadOverlap(known_controllers_)
  /\ manage_controllers_ = TRUE
  /\ selCall = NoCall
  /\ distCall = NoDistCall
  /\ ensCall = NoEnsureCall
  /\ EnvIdle
SpecEnsureDisjoint == InitEnsureDisjoint /\ [][EnsureActiveControllers]_vars

\* configure on its own: the context a push would queue
SpecConfigure == InitDist /\ [][Configure]_vars

\* the registry: a reload, then selection and activation on what it loaded
SpecReload ==
  Init /\ [][\/ ReloadControllerInformation
             \/ SelectControllers
             \/ EnsureActiveControllers]_vars

\* the planner on its own
InitEnv == ExecInit /\ SelIdle /\ EnvInit
NextEnv ==
  \/ \E scene \in {"hybrid", "no_world", "no_robot", "size_mismatch"}, start_joint_values, goal_joint_values \in RequestConfigs :
       setupForMotionPlan(scene, start_joint_values, goal_joint_values)
  \/ \E source_state_ID \in (-1)..MaxEntries : GetSuccs(source_state_ID)
SpecEnv == InitEnv /\ [][NextEnv]_vars

\* an environment that is set up, and set up again
SpecResetup ==
  InitEnv /\ [][\E scene \in {"hybrid", "no_world", "no_robot", "size_mismatch"}, start_joint_values, goal_joint_values \in RequestConfigs :
                  \/ setupForMotionPlan(scene, start_joint_values, goal_joint_values)
                  \/ SetupAgain(scene, start_joint_values, goal_joint_values)]_vars

\* the planner and the trajectory made of the path it found
SpecTraj == InitEnv /\ [][NextEnv \/ PopulateTrajectory]_vars

\* scenario B: one scene (every joint continuous, the angle discretisation
\* equal to the primitive step, no obstacle, the full grid) and any request
ScenarioBInit ==
  /\ joint_is_continuous = [j \in Dofs |-> TRUE]
  /\ angle_discretization_ = LONG_RANGE_JOINT_DIFF
  /\ obstacles = {}
  /\ grid_cells = 2 * HalfTurn
  /\ possible_actions_ = <<>>
  /\ state_ID_to_coord_table_ = <<>>
  /\ start_hash_entry_ = -1
  /\ goal_hash_entry_ = -1
  /\ setupResult = "none"
  /\ lastSuccs = NoSuccs
  /\ lastTraj = NoTraj
InitScenarioB == ExecInit /\ SelIdle /\ ScenarioBInit
SpecScenarioB ==
  /\ InitScenarioB
  /\ [][\/ \E start_joint_values, goal_joint_values \in Configs :
             setupForMotionPlan("hybrid", start_joint_values, goal_joint_values)
        \/ \E source_state_ID \in 0..MaxEntries : GetSuccs(source_state_ID)]_vars

\* The steps a foreground thread takes inside a call it has made (a woken
\* waiter re-checks its predicate); starting a call is left to the client.
FgContinue(t) ==
  \/ S622(t) \/ S638(t) \/ S643(t) \/ S653(t) \/ X663(t)
  \/ fg[t].pc = "wre" /\ WaitCall(t)

\* Fair scheduling: a thread that can take its next step does so eventually,
\* a thread that tries to lock a mutex that is free again and again gets it
\* eventually, and a running trajectory ends on its controller.
FairSpec ==
  /\ Spec
  /\ \A w \in WorkerIds : SF_vars(WorkerStep(w))
  /\ \A t \in Threads : SF_vars(FgContinue(t))
  /\ \A c \in Controllers : WF_vars(HandleFinish(c))

\* ===================================================================== claims

\* C1: from the moment execute() starts a worker until that worker has
\* finished, every push returns false and leaves the queue unchanged: while a
\* worker runs the queue never grows.  The code tests only
\* execution_complete_, which stopExecution (line 627) and the worker (line
\* 710) set before the worker has returned.
C1_PushRefusedWhileWorkerRuns ==
  [][SomeWorkerAlive => Len(trajectories_') <= Len(trajectories_)]_vars

\* C2 helpers: the covers a selection is measured against
JointsOf(c) == known_controllers_[c].joints_
Selected == selCall.selected_controllers
CoversActuated(T) ==
  selCall.actuated_joints \subseteq UNION {JointsOf(c) : c \in T}
JointDisjoint(T) ==
  \A c, d \in T : c # d => JointsOf(c) \cap JointsOf(d) = {}
ValidCovers ==
  {T \in SUBSET Range(selCall.available_controllers) :
     CoversActuated(T) /\ JointDisjoint(T)}
SelectionCovers == CoversActuated(Range(Selected))
SelectionDisjoint ==
  \A i, j \in 1..Len(Selected) :
     i # j => /\ Selected[i] # Selected[j]
              /\ JointsOf(Selected[i]) \cap JointsOf(Selected[j]) = {}
SelectionMinimal ==
  \A T \in ValidCovers : Len(Selected) <= Cardinality(T)

\* C2 as stated: a successful selectControllers(J, A) returns S whose joints
\* cover J, pairwise joint-disjoint, and of minimum size among such subsets of
\* A, whatever the manage flag.
C2_SelectionCoverDisjointMinimum ==
  selCall.ok => SelectionCovers /\ SelectionDisjoint /\ SelectionMinimal

\* C2 amended: S covers J and is pairwise joint-disjoint; S has minimum size
\* when controllers are managed; when they are not, S has minimum size or is a
\* larger selection made only of active controllers, taken because no
\* minimum-size cover is made only of active controllers (lines 423-435).
C2_SelectionCoverDisjoint ==
  selCall.ok =>
    /\ SelectionCovers
    /\ SelectionDisjoint
    /\ \/ SelectionMinimal
       \/ /\ ~manage_controllers_
          /\ areControllersActive(Selected)
          /\ \A T \in ValidCovers :
               (\A U \in ValidCovers : Cardinality(T) <= Cardinality(U))
                  => \E c \in T : ~known_controllers_[c].active_

C2_Witness ==
  /\ selCall.ok
  /\ ~manage_controllers_
  /\ Len(Selected) = 2
  /\ ~SelectionMinimal

\* C3: when a foreground stopExecution took effect during an execution that
\* did not time out, the status left once the worker has exited is PREEMPTED
\* (the worker never overwrites it).
C3_StopLeavesPreempted ==
  \A w \in WorkerIds :
     (workers[w].h.stopped /\ ~workers[w].h.timedOut /\ workers[w].pc = "done")
        => workers[w].h.exit = <<"PREEMPTED">>

\* C4: under fair scheduling every waitForExecution eventually returns, also
\* with a concurrent stopExecution.  The waiter calls stopExecution(false),
\* hence join(), with execution_state_mutex_ held (lines 670-674), while the
\* worker needs the mutex to finish (lines 857, 709).
C4_WaitEventuallyReturns ==
  (fg[ClientThread].op = "wait") ~> (fg[ClientThread].pc = "idle")

\* C5: the timeout path terminates: once the budget is overrun the worker
\* finishes, the final status is TIMED_OUT and the callback has run.  The
\* worker's own stopExecution(false) (line 838) joins the worker's own thread
\* (line 643).
C5_TimeoutTerminates ==
  \A w \in WorkerIds :
     workers[w].h.timedOut
        ~> (/\ workers[w].pc = "done"
            /\ last_execution_status_ = "TIMED_OUT"
            /\ workers[w].h.cb # <<>>)

\* C6: a worker dispatches the contexts in queue order, one at a time (every
\* handle of a context has been waited on before the worker sends a part of a
\* later context), and within a context part p is sent, in increasing p from
\* the first, on the handle of controllers_[p].
SentBy(w) == workers[w].h.sent

C6_DispatchInOrder ==
  \A w \in WorkerIds :
     /\ \A k \in 1..Len(SentBy(w)) :
          /\ SentBy(w)[k].handle = SentBy(w)[k].ctl
          /\ SentBy(w)[k].data = SentBy(w)[k].ctl
          /\ IF k = 1 THEN SentBy(w)[k].part = 1
             ELSE \/ /\ SentBy(w)[k].part = 1
                     /\ SentBy(w)[k-1].ctx < SentBy(w)[k].ctx
                  \/ /\ SentBy(w)[k-1].ctx = SentBy(w)[k].ctx
                     /\ SentBy(w)[k-1].part + 1 = SentBy(w)[k].part
     /\ \A k, l \in 1..Len(SentBy(w)) :
          SentBy(w)[k].ctx < SentBy(w)[l].ctx
             => <<SentBy(w)[k].ctx, SentBy(w)[k].part>> \in workers[w].h.waited

C6_Witness ==
  \E w \in WorkerIds :
     /\ Len(SentBy(w)) >= 3
     /\ SentBy(w)[1].ctx = 1 /\ SentBy(w)[2].ctx = 1 /\ SentBy(w)[3].ctx = 2

\* C7: when the send of a part has failed and no foreground stop took effect
\* on the worker, the worker's execution terminates with last status ABORTED.
C7_FailedSendEndsAborted ==
  \A w \in WorkerIds :
     (workers[w].h.fail # <<>> /\ ~workers[w].h.stopped /\ workers[w].pc = "done")
        => workers[w].h.exit = <<"ABORTED">>

C9_NoTwoEntriesShareCoord ==
  setupResult = "ok" =>
    \A i, j \in 1..Len(state_ID_to_coord_table_) :
       i # j => state_ID_to_coord_table_[i].coord
                  # state_ID_to_coord_table_[j].coord

\* C10 helpers: the call GetSuccs(id) on an id of the table
SuccsOfPresentId ==
  /\ lastSuccs.called
  /\ lastSuccs.id \in 0..(Len(state_ID_to_coord_table_) - 1)
SourceAngles == state_ID_to_coord_table_[lastSuccs.id + 1].angles
EveryPrimitivePruned ==
  \A k \in 1..Len(possible_actions_) :
     \/ ~generateSuccessorState(possible_actions_[k], SourceAngles)
     \/ InCollision(SuccessorAngles(possible_actions_[k], SourceAngles))
     \/ ~getGridXYZInt(SuccessorAngles(possible_actions_[k], SourceAngles))

C11_HeuristicConsistent ==
  (lastSuccs.called /\ lastSuccs.id \in 0..(Len(state_ID_to_coord_table_) - 1))
     => \A k \in 1..Len(lastSuccs.succ_idv) :
           GetGoalHeuristic(lastSuccs.id)
              <= lastSuccs.cost_v[k] + GetGoalHeuristic(lastSuccs.succ_idv[k])

\* ---------------------------------------------------------------------- C12
SharesJoints(i, joint_names) ==
  known_controllers_[distCall.controllers[i]].joints_ \cap Range(joint_names) # {}
SameTimes(part_points, points) ==
  /\ Len(part_points) = Len(points)
  /\ \A j \in 1..Len(points) :
       part_points[j].time_from_start = points[j].time_from_start

\* C12 as stated: after distributeTrajectory(T, S) has returned true, every
\* part i, also that of a controller whose joints do not intersect the joint
\* names of T, has a point j for every point j of T, with the same
\* time_from_start.
C12_TimestampsPreservedEveryPart ==
  (distCall.called /\ distCall.ok)
    => \A i \in 1..Len(distCall.controllers) :
         SameTimes(distCall.parts[i].joint_trajectory.points,
                   distCall.trajectory.joint_trajectory.points)

\* C12 amended: after distributeTrajectory(T, S) has returned true, the part
\* of a controller whose joints intersect the joint names of T has one point
\* for each point of T with the same time_from_start, and the part of a
\* controller whose joints do not intersect them has no point; the same holds
\* of the multi-DOF trajectory and its joint names.
C12_TimestampsPreservedWhereJointsShared ==
  (distCall.called /\ distCall.ok)
    => \A i \in 1..Len(distCall.controllers) :
         /\ IF SharesJoints(i, distCall.trajectory.joint_trajectory.joint_names)
              THEN SameTimes(distCall.parts[i].joint_trajectory.points,
                             distCall.trajectory.joint_trajectory.points)
              ELSE distCall.parts[i].joint_trajectory.points = <<>>
         /\ IF SharesJoints(i, distCall.trajectory.multi_dof_joint_trajectory.joint_names)
              THEN SameTimes(distCall.parts[i].multi_dof_joint_trajectory.points,
                             distCall.trajectory.multi_dof_joint_trajectory.points)
              ELSE distCall.parts[i].multi_dof_joint_trajectory.points = <<>>

\* a call with two points at different times, one controller that shares a
\* joint with the trajectory and one that shares none
C12_Witness ==
  /\ distCall.called /\ distCall.ok
  /\ Len(distCall.controllers) = 2
  /\ Len(distCall.trajectory.joint_trajectory.points) = 2
  /\ distCall.trajectory.joint_trajectory.points[1].time_from_start = 0
  /\ distCall.trajectory.joint_trajectory.points[2].time_from_start = 1
  /\ SharesJoints(1, distCall.trajectory.joint_trajectory.joint_names)
  /\ distCall.parts[1].joint_trajectory.points[2].time_from_start = 1
  /\ ~SharesJoints(2, distCall.trajectory.joint_trajectory.joint_names)
  /\ distCall.parts[2].joint_trajectory.points = <<>>

\* ---------------------------------------------------------------------- C13
\* C13: when the manager does not manage controllers,
\* ensureActiveControllers(controllers) returns true exactly when every
\* controller named in the list is active, whatever the order of the names.
C13_NotManagingTrueIffAllActive ==
  (ensCall.called /\ ~manage_controllers_)
    => (ensCall.ok <=>
          \A k \in 1..Len(ensCall.controllers) :
            ensCall.controllers[k] \in originally_active)

\* ---------------------------------------------------------------------- C14
SetupFailed == setupResult \notin {"none", "ok"}

\* C14: whenever setupForMotionPlan has returned failure, with any error
\* code, the state table has no entry and the start and goal entry pointers
\* are unset.
C14_FailedSetupLeavesTableEmpty ==
  SetupFailed => /\ state_ID_to_coord_table_ = <<>>
                 /\ start_hash_entry_ = -1
                 /\ goal_hash_entry_ = -1

\* ---------------------------------------------------------------------- C15
\* C15: a call successors(id) with id outside 0..size-1 (an id of size or
\* more, or a negative id) returns empty lists, reads no table entry and
\* leaves the table as it was.
C15_OutsideIdReturnsEmpty ==
  [][(/\ lastSuccs'.called
      /\ lastSuccs'.id \notin 0..(Len(state_ID_to_coord_table_) - 1))
       => /\ lastSuccs'.succ_idv = <<>>
          /\ lastSuccs'.cost_v = <<>>
          /\ ~lastSuccs'.out_of_bounds
          /\ state_ID_to_coord_table_' = state_ID_to_coord_table_]_vars

\* ---------------------------------------------------------------------- C16
\* the steps of a call stopExecution(auto_clear) of thread t that read the
\* completion flag set at line 620: the call itself and its else branch (653)
StopWhileCompleteStep(t) ==
  /\ fg'[t] # fg[t]
  /\ \/ fg[t].pc = "idle" /\ fg'[t].pc = "s653" /\ fg'[t].op = "stop"
     \/ fg[t].pc = "s653" /\ fg[t].op = "stop"

\* C16: a call stopExecution(auto_clear) that finds the completion flag set,
\* for either value of auto_clear and also when it comes from the "stop"
\* event, cancels no handle and leaves the queue of contexts, the last
\* execution status, the completion flag and the active handles as they are.
C16_StopWhileCompleteChangesNothing ==
  [][\A t \in Threads :
       StopWhileCompleteStep(t)
         => /\ handle' = handle
            /\ trajectories_' = trajectories_
            /\ last_execution_status_' = last_execution_status_
            /\ execution_complete_' = execution_complete_
            /\ active_handles_' = active_handles_]_vars

\* the "stop" event has called stopExecution(true) with the flag set, a
\* context queued and a finished worker left to join
C16_Witness ==
  /\ fg[EventThread].pc = "s653"
  /\ fg[EventThread].op = "stop"
  /\ fg[EventThread].ac
  /\ execution_complete_
  /\ trajectories_ # <<>>
  /\ JoinReturns

StartEntry == state_ID_to_coord_table_[start_hash_entry_ + 1]
GoalEntry == state_ID_to_coord_table_[goal_hash_entry_ + 1]

\* C18 (scenario A): when the start and the goal configuration discretise to
\* the same coordinates, setup succeeds, the goal entry is the start entry
\* (one stateID), and GetSuccs(start) returns an empty list.
C18_SameCoordOneEntry ==
  (setupResult = "ok" /\ StartEntry.coord = GoalEntry.coord)
    => /\ start_hash_entry_ = goal_hash_entry_
       /\ (lastSuccs.called /\ lastSuccs.id = start_hash_entry_)
            => lastSuccs.succ_idv = <<>>

\* ---------------------------------------------------------------------- C19
\* scenario B: one active joint, start 0.0 and goal 0.30, that is three
\* primitive steps
ScenarioB ==
  /\ Dofs = {1}
  /\ setupResult = "ok"
  /\ StartEntry.angles = [j \in Dofs |-> 0]
  /\ GoalEntry.angles = [j \in Dofs |-> 3 * LONG_RANGE_JOINT_DIFF]
ExpandedAt(a) ==
  /\ SuccsOfPresentId
  /\ SourceAngles = [j \in Dofs |-> a]
\* GetSuccs(start) returns two successors, the states one step above and one
\* step below the start, neither of them the goal entry, each at cost 1000
StartHasTwoSuccessors ==
  ExpandedAt(0)
    => /\ Len(lastSuccs.succ_idv) = 2
       /\ lastSuccs.cost_v = <<1000, 1000>>
       /\ goal_hash_entry_ \notin Range(lastSuccs.succ_idv)
       /\ state_ID_to_coord_table_[lastSuccs.succ_idv[1] + 1].angles
            = [j \in Dofs |-> LONG_RANGE_JOINT_DIFF]
       /\ state_ID_to_coord_table_[lastSuccs.succ_idv[2] + 1].angles
            = [j \in Dofs |-> -LONG_RANGE_JOINT_DIFF]

\* C19 as stated (scenario B): GetSuccs(start) returns exactly the states at
\* 0.1 and -0.1, each at cost 1000, and along the +0.1 chain the goal entry is
\* returned for a successor at the third expansion (of the state at 0.2) and
\* not at the first or the second.
C19_AbsorbedAtThirdExpansion ==
  ScenarioB
    => /\ StartHasTwoSuccessors
       /\ ExpandedAt(LONG_RANGE_JOINT_DIFF)
            => goal_hash_entry_ \notin Range(lastSuccs.succ_idv)
       /\ ExpandedAt(2 * LONG_RANGE_JOINT_DIFF)
            => lastSuccs.succ_idv[1] = goal_hash_entry_

\* C19 amended (scenario B): GetSuccs(start) returns exactly the states at 0.1
\* and -0.1, each at cost 1000, and along the +0.1 chain the goal entry is
\* returned at the second expansion, that of the state at 0.1, whose +0.1
\* successor 0.2 is one step from the goal; no entry is made for 0.2.
C19_AbsorbedAtSecondExpansion ==
  ScenarioB
    => /\ StartHasTwoSuccessors
       /\ ExpandedAt(LONG_RANGE_JOINT_DIFF)
            => lastSuccs.succ_idv[1] = goal_hash_entry_
       /\ \A k \in 1..Len(state_ID_to_coord_table_) :
            state_ID_to_coord_table_[k].angles
              # [j \in Dofs |-> 2 * LONG_RANGE_JOINT_DIFF]

\* the state at 0.1, which GetSuccs(start) made, has been expanded
C19_Witness ==
  /\ ScenarioB
  /\ ExpandedAt(LONG_RANGE_JOINT_DIFF)
  /\ lastSuccs.succ_idv[1] = goal_hash_entry_
  /\ Len(state_ID_to_coord_table_) >= 4

\* ---------------------------------------------------------------------- C20
\* C20: on every path on which the worker of execute(callback, auto_clear)
\* ends, the stop that arrives before the worker has run included, the
\* callback has been called exactly once, with the terminal status, after the
\* completion flag was set and the waiters notified (h.exit is the status the
\* thread function ended with, h.cb the statuses the callback was given).
C20_CallbackOnceOnEveryPath ==
  \A w \in WorkerIds :
    (workers[w].pc = "done" /\ workers[w].h.exit # <<>>)
      => /\ Len(workers[w].h.cb) = 1
         /\ workers[w].h.cb = workers[w].h.exit

\* ---------------------------------------------------------------------- C21
\* C21: after every reloadControllerInformation and the selections and
\* activations that follow it, for all known controllers a and b, b is in the
\* overlap set of a exactly when a and b differ and their joint sets share a
\* joint (so the relation is symmetric and no controller overlaps itself).
C21_OverlapIsJointIntersection ==
  \A a, b \in CtlNames :
    b \in overlapping_controllers_(a)
      <=> (a # b /\ known_controllers_[a].joints_
                      \cap known_controllers_[b].joints_ # {})

\* a reloaded registry with overlapping controllers, on which a selection and
\* an activation have been made
C21_Witness ==
  /\ selCall.called /\ selCall.ok
  /\ ensCall.called
  /\ \E a, b \in CtlNames : a < b /\ b \in overlapping_controllers_(a)
  /\ \E a, b \in CtlNames : a < b /\ b \notin overlapping_controllers_(a)

\* ---------------------------------------------------------------------- C22
\* C22: stop requests made by several threads during one running execution
\* act as one: a stopExecution call that has set the flag and reached the
\* join of line 643 still finds the worker-thread object, because no other
\* call has released it, and so every call returns.
C22_StopJoinsUnreleasedThread ==
  \A t \in Threads :
    (fg[t].pc = "s643" /\ fg[t].op = "stop") => execution_thread_ # 0

\* ---------------------------------------------------------------------- C23
\* C23: a stopExecution(false) on a running execution leaves the queue as it
\* was when the call was made, whatever auto_clear execute was given: while
\* the client is inside such a call and has set the flag (lines 627 to 644)
\* and the event thread makes no call, no step changes trajectories_.
C23_StopWithoutClearKeepsQueue ==
  [][(/\ fg[ClientThread].op = "stop"
      /\ ~fg[ClientThread].ac
      /\ fg[ClientThread].pc \in {"s638", "s643"}
      /\ fg[EventThread].pc = "idle"
      /\ fg'[EventThread].pc = "idle")
     => trajectories_' = trajectories_]_vars

\* ---------------------------------------------------------------------- C24
\* C24: selectControllers(J, A) returns false exactly when no set of
\* controllers of A with pairwise disjoint joints covers J; it returns false
\* for the empty list, and true whenever such a set of any size from 1 to the
\* length of A exists.
C24_FailsIffNoDisjointCover ==
  selCall.called =>
    /\ selCall.ok <=> ValidCovers # {}
    /\ selCall.available_controllers = <<>> => ~selCall.ok

\* a selection that needed two controllers, none of size one covering J
C24_Witness ==
  /\ selCall.called /\ selCall.ok
  /\ Len(Selected) = 2
  /\ \A T \in ValidCovers : Cardinality(T) >= 2

\* ---------------------------------------------------------------------- C25
\* the joint names a trajectory part carries
PartJoints(part) ==
  Range(part.joint_trajectory.joint_names)
    \cup Range(part.multi_dof_joint_trajectory.joint_names)
ConfigureSucceeded ==
  selCall.called /\ selCall.ok /\ distCall.called /\ distCall.ok

\* C25: the context a successful configure builds for push has as many parts
\* as controllers, the joint names of its parts are pairwise disjoint, and
\* their union is the set of the trajectory's joints that the selected
\* controllers cover.
C25_PartsPartitionCoveredJoints ==
  ConfigureSucceeded =>
    /\ distCall.controllers = selCall.selected_controllers
    /\ Len(distCall.parts) = Len(distCall.controllers)
    /\ \A i, j \in 1..Len(distCall.parts) :
         i # j => PartJoints(distCall.parts[i])
                    \cap PartJoints(distCall.parts[j]) = {}
    /\ UNION {PartJoints(distCall.parts[i]) : i \in 1..Len(distCall.parts)}
         = actuated_joints_of(distCall.trajectory)
             \cap UNION {known_controllers_[distCall.controllers[i]].joints_ :
                           i \in 1..Len(distCall.controllers)}

\* a context of two controllers, each given a part with joints
C25_Witness ==
  /\ ConfigureSucceeded
  /\ Len(distCall.parts) = 2
  /\ \A i \in 1..2 : PartJoints(distCall.parts[i]) # {}

\* ---------------------------------------------------------------------- C26
\* C26 helpers: the rank of a set of pairwise joint-disjoint controllers
DefaultCount(T) == Cardinality({c \in T : known_controllers_[c].default_})
ActiveCount(T) == Cardinality({c \in T : known_controllers_[c].active_})
JointCount(T) == Cardinality(UNION {JointsOf(c) : c \in T})
StrictlyBetter(T, U) ==
  \/ DefaultCount(T) > DefaultCount(U)
  \/ /\ DefaultCount(T) = DefaultCount(U)
     /\ JointCount(T) < JointCount(U)
  \/ /\ DefaultCount(T) = DefaultCount(U)
     /\ JointCount(T) = JointCount(U)
     /\ ActiveCount(T) < ActiveCount(U)
OptionsOfSize(k) == {T \in ValidCovers : Cardinality(T) = k}

AllActive(T) == \A c \in T : known_controllers_[c].active_
WinningSize ==
  CHOOSE k \in 1..MaxCtl :
    /\ OptionsOfSize(k) # {}
    /\ \A n \in 1..(k - 1) : OptionsOfSize(n) = {}
ActiveAtWinningSize == \E T \in OptionsOfSize(WinningSize) : AllActive(T)
ActiveAtLargerSize ==
  \E T \in ValidCovers : Cardinality(T) > WinningSize /\ AllActive(T)

C28_SharedStateWrittenUnderLock ==
  [][(/\ <<execution_complete_, active_handles_, last_execution_status_,
           current_context_>>' #
         <<execution_complete_, active_handles_, last_execution_status_,
           current_context_>>
      /\ execution_state_mutex_ # NoOwner
      /\ execution_state_mutex_' = execution_state_mutex_)
     => /\ \A t \in Threads :
             execution_state_mutex_ = ThreadOwner(t) => fg'[t] # fg[t]
        /\ \A w \in WorkerIds :
             execution_state_mutex_ = WorkerOwner(w) => workers'[w] # workers[w]]_vars

\* ---------------------------------------------------------------------- C29
\* C29: once a stopExecution has set the completion flag during an execution,
\* the worker of that execution calls sendTrajectory no more and starts no
\* further context (it does not reach the sends of lines 737-748 again), and
\* when that stop has made its cancel calls (line 638 reached) no handle that
\* is recorded in active_handles_ is still running.
C29_NothingSentAfterStop ==
  [][/\ \A w \in WorkerIds :
          workers[w].h.stopped =>
            /\ workers'[w].h.sent = workers[w].h.sent
            /\ workers'[w].pc = "p748" => workers[w].pc = "p748"
     /\ \A t \in Threads :
          (fg[t].pc = "s622" /\ fg'[t].pc = "s638") =>
            \A c \in Range(active_handles_') : handle'[c] # "running"]_vars

\* ---------------------------------------------------------------------- C30
\* C30 helpers: the candidates of an expansion from the angles src
Candidate(i, src) == SuccessorAngles(possible_actions_[i], src)
Kept(i, src) ==
  /\ generateSuccessorState(possible_actions_[i], src)
  /\ Candidate(i, src) \notin obstacles
  /\ getGridXYZInt(Candidate(i, src))
KeptPrimitives(src) ==
  SortedSeq({i \in 1..Len(possible_actions_) : Kept(i, src)})
Absorbed(i, src, goal_angles) ==
  getJointDistanceIntegerMax(Candidate(i, src), goal_angles) = 1
CoordsOf(table) == {table[k].coord : k \in 1..Len(table)}

\* what C30 asks of an expansion of the entry x that turns table into after
\* and returns succ
SuccessorsAsStated(x, table, after, succ) ==
  LET src == table[x + 1].angles
      goal_angles == table[goal_hash_entry_ + 1].angles
      kept == KeptPrimitives(src)
      looked_up == {convertJointAnglesToCoord(Candidate(kept[k], src)) :
                      k \in {n \in 1..Len(kept) :
                               ~Absorbed(kept[n], src, goal_angles)}}
  IN /\ Len(succ) = Len(kept)
     /\ \A k \in 1..Len(kept) :
          IF Absorbed(kept[k], src, goal_angles)
            THEN succ[k] = goal_hash_entry_
            ELSE /\ succ[k] \in 0..(Len(after) - 1)
                 /\ after[succ[k] + 1].coord
                      = convertJointAnglesToCoord(Candidate(kept[k], src))
     /\ Len(after) >= Len(table)
     /\ SubSeq(after, 1, Len(table)) = table
     /\ {after[k].coord : k \in (Len(table) + 1)..Len(after)}
          = looked_up \ CoordsOf(table)
     /\ Len(after) - Len(table) = Cardinality(looked_up \ CoordsOf(table))

\* C30: the successors of a table entry other than the goal are, in the order
\* of the primitives, one id for each primitive whose candidate is generated,
\* free of collision and in the grid: the goal's id when the largest integer
\* joint distance from the candidate to the goal is 1, else the id of the
\* entry with the candidate's coordinates, created when the table had none.
\* The other candidates give no successor and no entry.
C30_SuccessorsPerKeptPrimitive ==
  [][(/\ lastSuccs' # lastSuccs
      /\ lastSuccs'.called
      /\ lastSuccs'.id \in 0..(Len(state_ID_to_coord_table_) - 1)
      /\ lastSuccs'.id # goal_hash_entry_)
     => SuccessorsAsStated(lastSuccs'.id, state_ID_to_coord_table_,
                           state_ID_to_coord_table_', lastSuccs'.succ_idv)]_vars

\* an expansion that dropped a colliding candidate and kept the other one
C30_Witness ==
  /\ lastSuccs.called
  /\ lastSuccs.id \in 0..(Len(state_ID_to_coord_table_) - 1)
  /\ lastSuccs.id # goal_hash_entry_
  /\ Len(lastSuccs.succ_idv) = 1
  /\ \E i \in 1..Len(possible_actions_) :
       LET src == state_ID_to_coord_table_[lastSuccs.id + 1].angles
       IN /\ generateSuccessorState(possible_actions_[i], src)
          /\ Candidate(i, src) \in obstacles

\* ---------------------------------------------------------------------- C31
\* C31 helpers: the activations and deactivations a managed call works out,
\* and the joints the deactivations would leave uncovered
EnsureManaged ==
  /\ ensCall.called /\ manage_controllers_
  /\ \A i \in 1..Len(ensCall.controllers) : ensCall.controllers[i] \in CtlNames
Activations ==
  {c \in Range(ensCall.controllers) : ~known_controllers_[c].active_}
Deactivations ==
  {d \in CtlNames : /\ known_controllers_[d].active_
                    /\ \E a \in Activations :
                         a # d /\ JointsOf(a) \cap JointsOf(d) # {}}
Gap == UNION {JointsOf(d) : d \in Deactivations}
         \ UNION {JointsOf(a) : a \in Activations}
GapCoverable ==
  Gap \subseteq
    UNION {JointsOf(c) :
             c \in {k \in CtlNames :
                      \A a \in Activations :
                        a = k \/ JointsOf(a) \cap JointsOf(k) = {}}}
SwitchLists ==
  ensCall.controllers_to_activate # <<>>
    \/ ensCall.controllers_to_deactivate # <<>>

\* C31: a managed ensureActiveControllers fails and hands nothing to
\* loadController or switchControllers when the joints of the controllers to
\* deactivate that the activations leave out cannot be covered by known
\* controllers that overlap no activation; and the lists it hands to a switch
\* are such that every joint of a deactivated controller is a joint of some
\* activated controller.
C31_GapCoveredOrRefused ==
  EnsureManaged =>
    /\ ~GapCoverable => (~ensCall.ok /\ ~SwitchLists)
    /\ SwitchLists =>
         \A k \in 1..Len(ensCall.controllers_to_deactivate) :
           JointsOf(ensCall.controllers_to_deactivate[k]) \subseteq
             JointsOfList(ensCall.controllers_to_activate)

\* a switch whose activation list was extended to cover a deactivated
\* controller's joints
C31_Witness ==
  /\ EnsureManaged /\ ensCall.ok
  /\ Gap # {}
  /\ ensCall.controllers_to_deactivate # <<>>
  /\ Range(ensCall.controllers_to_activate) \ Activations # {}

\* ---------------------------------------------------------------------- C32
\* C32: after a successful setup every call leaves the table at least as long
\* as it was, with the entry at position id carrying stateID = id and every
\* existing entry as it was; and a successors call on the goal or on an id
\* outside 0..size-1 adds no entry (a heuristic query writes nothing).
C32_TableOnlyGrows ==
  [][setupResult = "ok" =>
       /\ Len(state_ID_to_coord_table_') >= Len(state_ID_to_coord_table_)
       /\ \A k \in 1..Len(state_ID_to_coord_table_) :
            state_ID_to_coord_table_'[k] = state_ID_to_coord_table_[k]
       /\ \A k \in 1..Len(state_ID_to_coord_table_') :
            state_ID_to_coord_table_'[k].stateID = k - 1
       /\ (/\ lastSuccs' # lastSuccs
           /\ \/ IsGoal(lastSuccs'.id)
              \/ lastSuccs'.id \notin 0..(Len(state_ID_to_coord_table_) - 1))
            => state_ID_to_coord_table_' = state_ID_to_coord_table_]_vars

\* ---------------------------------------------------------------------- C33
\* C33: InitializeMDPCfg returns success, with the ids of the start and goal
\* entries, exactly when the most recent setupForMotionPlan call succeeded;
\* before any setup and after a failed setup, also one that follows a
\* successful setup of the same environment, it returns failure.
C33_InitMDPIffLastSetupSucceeded ==
  /\ InitializeMDPCfg.ok <=> setupResult = "ok"
  /\ InitializeMDPCfg.ok =>
       /\ InitializeMDPCfg.startstateid = Len(state_ID_to_coord_table_) - 2
       /\ InitializeMDPCfg.goalstateid = Len(state_ID_to_coord_table_) - 1

\* ---------------------------------------------------------------------- C34
\* C34: while only the client thread calls execute, stopExecution and
\* waitForExecution (the event thread has made no call), at most one worker
\* exists at any time.
C34_OneWorkerUnderOneCaller ==
  ncalls[EventThread] = 0 =>
    Cardinality({w \in WorkerIds : workers[w].pc \notin {"none", "done"}}) <= 1

\* ---------------------------------------------------------------------- C35
\* C35: when a worker ends its execution with last_execution_status_
\* SUCCEEDED, every context that was queued when execute() started it has had
\* its parts sent, each handle waited for, and no handle of it reported a
\* status other than SUCCEEDED.
C35_SucceededMeansAllSent ==
  \A w \in WorkerIds :
    workers[w].h.exit = <<"SUCCEEDED">> =>
      \A i \in 1..workers[w].h.queued :
        /\ \E k \in 1..Len(workers[w].h.sent) : workers[w].h.sent[k].ctx = i
        /\ \A k \in 1..Len(workers[w].h.sent) :
             workers[w].h.sent[k].ctx = i
               => <<i, workers[w].h.sent[k].part>> \in workers[w].h.waited
        /\ \A r \in workers[w].h.reported : r[1] # i

\* ---------------------------------------------------------------------- C36
\* C36: when the manager manages controllers, the active controllers share no
\* joint and the controllers of the requested list share no joint, the set
\* made of the active controllers and the activation list without the
\* deactivation list shares no joint either, also when controllers were added
\* to cover the joints of deactivated ones.
C36_ActiveSetStaysDisjoint ==
  (/\ EnsureManaged /\ ensCall.ok
   /\ JointDisjoint(originally_active)
   /\ \A i, j \in 1..Len(ensCall.controllers) :
        i # j => JointsOf(ensCall.controllers[i])
                   \cap JointsOf(ensCall.controllers[j]) = {})
    => JointDisjoint((originally_active
                        \cup Range(ensCall.controllers_to_activate))
                       \ Range(ensCall.controllers_to_deactivate))

\* ---------------------------------------------------------------------- C37
\* C37: no thread waits in join() for the worker while it holds
\* execution_state_mutex_ and that worker is waiting to lock the mutex.
C37_NoJoinUnderLock ==
  ~\E t \in Threads, w \in WorkerIds :
      /\ fg[t].pc \in {"s643", "s653"}
      /\ execution_state_mutex_ = ThreadOwner(t)
      /\ execution_thread_ = w
      /\ workers[w].pc \in {"t709", "p732", "p857", "ws622"}

\* ---------------------------------------------------------------------- C38
\* C38 helper: b is a with exactly one joint moved by one long-range step
OneStepApart(a, b) ==
  \E j \in Dofs :
    /\ \A i \in Dofs \ {j} : a[i] = b[i]
    /\ (IF joint_is_continuous[j] THEN Wrap(b[j] - a[j]) ELSE b[j] - a[j])
         \in {LONG_RANGE_JOINT_DIFF, -LONG_RANGE_JOINT_DIFF}

\* C38: the angles stored for every successor GetSuccs(x) returns differ from
\* the angles stored for x in exactly one joint, by one LONG_RANGE_JOINT_DIFF
\* step (modulo wrapping for a continuous joint), so that consecutive points
\* of a trajectory along successor edges are one step apart, the edge into
\* the goal entry included.
C38_SuccessorIsOneStepAway ==
  SuccsOfPresentId =>
    \A k \in 1..Len(lastSuccs.succ_idv) :
      OneStepApart(SourceAngles,
                   state_ID_to_coord_table_[lastSuccs.succ_idv[k] + 1].angles)

\* ---------------------------------------------------------------------- C39
\* C39: whenever no execution is in flight, before the first execute() and
\* after a worker has exited on whichever path, active_handles_ is empty,
\* time_index_ is empty, current_context_ is -1 and
\* getCurrentExpectedTrajectoryIndex() returns (-1, -1).
C39_IdleStateIsClean ==
  (~SomeWorkerAlive /\ ~terminated) =>
    /\ active_handles_ = <<>>
    /\ time_index_ = <<>>
    /\ current_context_ = -1
    /\ getCurrentExpectedTrajectoryIndex = {<<-1, -1>>}

\* a worker that sent a context's parts and waited for its handles has exited
C39_Witness ==
  /\ ~SomeWorkerAlive /\ ~terminated
  /\ \E w \in WorkerIds :
       /\ workers[w].pc = "done"
       /\ workers[w].h.sent # <<>>
       /\ workers[w].h.waited # {}
       /\ workers[w].h.exit # <<>>

\* ---------------------------------------------------------------------- C40
\* C40 helpers: the duration D of the claim, in units of time_from_start, and
\* the budget it gives in milliseconds
LastTime(points) ==
  IF points = <<>> THEN 0 ELSE points[Len(points)].time_from_start
StatedDuration(parts, now) ==
  Max({0} \cup
      {(IF parts[i].joint_trajectory.header > now
          THEN parts[i].joint_trajectory.header - now ELSE 0)
       + Max({LastTime(parts[i].joint_trajectory.points),
              LastTime(parts[i].multi_dof_joint_trajectory.points)}) :
         i \in 1..Len(parts)})
StatedBudget(parts, now) ==
  (11 * TimeStepMs * StatedDuration(parts, now)) \div 10 + 500

\* C40: the worker sets TIMED_OUT only when more than 1.1 * D + 500 ms have
\* passed since the dispatch, D being the largest, over the parts, of the
\* positive start offset of the header stamp plus the time_from_start of the
\* last point, single-DOF or multi-DOF: the budget the worker waits for is at
\* least that, also for a part that has multi-DOF points only.
C40_BudgetCoversEveryPart ==
  (distCall.called /\ distCall.ok) =>
    \A now \in 0..MaxTime :
      expected_trajectory_duration(distCall.parts, now)
        >= StatedBudget(distCall.parts, now)

====
